---------------------------- MODULE Spec2Model ----------------------------
(***************************************************************************)
(* A model of the code runner of VibeCodingLab's server.py: the static     *)
(* validator (validate_code_safety), the input simulator                   *)
(* (create_safe_input), the bounded runner (execute_with_timeout) and the  *)
(* two endpoints in front of them (execute_code, validate_code).           *)
(*                                                                         *)
(* Strings are TLA+ strings (Len, SubSeq and \o act on them as len, slice  *)
(* and + act on Python strings).  The server's messages are Chinese; TLA+  *)
(* strings are ASCII, so each message is written in English and the        *)
(* original is quoted beside it.  Python's None is the empty tuple and a   *)
(* value v that may be None is held as <<v>>.                              *)
(***************************************************************************)
EXTENDS Integers, Sequences, FiniteSets, TLC

VARIABLES
    \* The validator on its own (SpecValidator).
    v_tree,         \* what ast.parse gave for the source under validation
    v_result,       \* what validate_code_safety returned for it, <<>> before
    \* One request through an endpoint (Spec).
    request,        \* the request being handled, <<>> when idle
    sup_pc,         \* where the request's handler (the supervisor) stands
    safety,         \* <<what validate_code_safety returned to the handler>>
    result,         \* the dict execute_with_timeout shares with its thread
    returned,       \* <<result as it was when execute_with_timeout returned>>
    join_expired,   \* thread.join(timeout) came back with the thread running
    response,       \* <<the JSON answer>>, <<>> until the handler answers
    n_validate,     \* calls of validate_code_safety made for the request
    n_threads,      \* execution threads started for the request
    \* The execution thread (target).
    t_pc,           \* none | running | collect | except | exit | dead
    steps,          \* operations the executed source has performed
    output_buffer,  \* the StringIO standard output is redirected to
    error_buffer,   \* the StringIO standard error is redirected to
    input_index,    \* input_index[0] of create_safe_input
    input_log,      \* what each call of safe_input gave: <<value>> or EOFError
    exc,            \* <<str(e)>> of the exception that left exec, if any
    \* The credential pool and the threads that use it (SpecPool).
    api_keys_list,      \* the keys load_api_keys has loaded
    current_key_index,  \* the index of the key handed out next
    api_key_lock,       \* <<the thread that holds the lock>>, <<>> when free
    caller,             \* the frame of each thread, see IdleFrame
    key_log,            \* the keys read at line 122, in the order of reading
    n_calls,            \* calls of the two functions made so far
    \* Executions side by side (SpecStdout).
    sys_stdout,     \* sys.stdout: <<the run whose buffer it is>>, <<>> = console
    run,            \* the state of each execution thread, see NoRun
    n_prints,       \* prints made by the other threads of the server
    \* The restricted environment (SpecEnv).
    safe_builtins,    \* the dict SAFE_BUILTINS of the process
    allowed_modules,  \* the set ALLOWED_MODULES of the process
    env,              \* the state of each execution, see NoEnv
    import_log,       \* the names __builtins__.__import__ was called with
    n_execs,          \* executions started so far
    \* The local score backup (SpecBackup, SpecBackupSeq).
    scores_file,    \* scores_backup.json: <<its records>>, <<>> when absent
    writer,         \* the frame of each thread, see IdleWriter
    score_log,      \* the submissions, in the order of the calls
    n_submits,      \* calls of write_score_via_webapp made so far
    \* The question cache (SpecCache).
    questions_cache,       \* the list cached, <<>> for None
    questions_last_fetch,  \* <<the time it was set>>, <<>> for None
    questions_file,        \* questions.json: <<its list>>, <<>> when absent
    now,                   \* datetime.now(), in minutes
    cache_filled,          \* the time questions_cache was last assigned
    answer                 \* <<the last answer of an endpoint>>

None == <<>>
Some(v) == <<v>>

\* s repeated n times (Python's s * n).
RECURSIVE Rep(_, _)
Rep(s, n) ==
    IF n = 0 THEN ""
    ELSE IF n % 2 = 1 THEN s \o Rep(s, n - 1)
    ELSE LET h == Rep(s, n \div 2) IN h \o h

-----------------------------------------------------------------------------
(* The allowlist registry, server.py 197-275.                              *)

EXECUTION_TIMEOUT == 5
MAX_OUTPUT_LENGTH == 10000

ALLOWED_MODULES ==
    {"math", "random", "datetime", "decimal", "fractions", "statistics",
     "string", "json", "re"}

\* DANGEROUS_NODES without ast.Nonlocal.
DANGEROUS_NODES_NoNonlocal == {"Global"}

\* DANGEROUS_NODES holds the node classes ast.Global and ast.Nonlocal.
DANGEROUS_NODES == {"Global", "Nonlocal"}

\* DANGEROUS_FUNCTIONS with 'input' among its names.
DANGEROUS_FUNCTIONS_WithInput ==
    {"open", "file", "input", "raw_input", "exec", "eval", "compile",
     "globals", "locals", "vars", "dir", "setattr", "delattr",
     "exit", "quit", "help", "license", "credits", "reload", "execfile"}

DANGEROUS_FUNCTIONS ==
    {"open", "file", "raw_input", "exec", "eval", "compile",
     "globals", "locals", "vars", "dir", "setattr", "delattr",
     "exit", "quit", "help", "license", "credits", "reload", "execfile"}

\* dangerous_attrs without '__file__'.
dangerous_attrs_NoFile ==
    {"__globals__", "__locals__", "__builtins__", "__name__"}

\* The local set of validate_code_safety, line 340.
dangerous_attrs ==
    {"__globals__", "__locals__", "__builtins__", "__file__", "__name__"}

-----------------------------------------------------------------------------
(* Syntax trees.  A node of Python's ast is a record: its class (kind),    *)
(* the names it carries and its child nodes in the order of                *)
(* ast.iter_child_nodes.                                                   *)
(*   Import      names = the alias names, in order                         *)
(*   ImportFrom  names = <<module>>, or <<>> when module is None           *)
(*               (from . import x); level = the number of leading dots     *)
(*   Global, Nonlocal   names = the declared identifiers                   *)
(*   Call        kids = <<func>> \o args                                   *)
(*   Attribute   names = <<attr>>, kids = <<value>>                        *)
(*   Name        names = <<id>>                                            *)
(*   FunctionDef, Expr, Module   kids = the body                           *)
(*   FunctionDefWith   a FunctionDef with its arguments node (kids = the    *)
(*               default values), then its body, then its decorators       *)
(*   Assign      kids = targets \o <<value>>                                *)
(*   ListComp    kids = <<elt, comprehension>>, and the comprehension's      *)
(*               kids = <<target, iter>>                                    *)
(* The alias children of an import and the expression contexts are left    *)
(* out: they are leaves that no branch of the validator looks at.          *)

Node(kind, names, level, kids) ==
    [kind |-> kind, names |-> names, level |-> level, kids |-> kids]

Name(id) == Node("Name", <<id>>, 0, <<>>)
Attribute(value, attr) == Node("Attribute", <<attr>>, 0, <<value>>)
Call(func, args) == Node("Call", <<>>, 0, <<func>> \o args)
Expr(value) == Node("Expr", <<>>, 0, <<value>>)
Import(names) == Node("Import", names, 0, <<>>)
ImportFrom(module, level) == Node("ImportFrom", module, level, <<>>)
Global(ids) == Node("Global", ids, 0, <<>>)
Nonlocal(ids) == Node("Nonlocal", ids, 0, <<>>)
FunctionDef(body) == Node("FunctionDef", <<"f">>, 0, body)
Module(body) == Node("Module", <<>>, 0, body)
arguments(defaults) == Node("arguments", <<>>, 0, defaults)
FunctionDefWith(defaults, body, decorators) ==
    Node("FunctionDef", <<"f">>, 0, <<arguments(defaults)>> \o body \o decorators)
Assign(targets, value) == Node("Assign", <<>>, 0, targets \o <<value>>)
comprehension(target, iter) == Node("comprehension", <<>>, 0, <<target, iter>>)
ListComp(elt, target, iter) ==
    Node("ListComp", <<>>, 0, <<elt, comprehension(target, iter)>>)

\* What ast.parse gives for a source that does not parse (it raises
\* SyntaxError; the text of the exception is not modelled).
SyntaxError == Node("SyntaxError", <<>>, 0, <<>>)

\* '語法錯誤: ' + str(e)
MsgSyntax == "syntax error"
\* '不允許導入模組: ' + name
MsgImport(name) == "import not allowed: " \o name
\* '不允許使用: ' + type(node).__name__
MsgNode(kind) == "not allowed: " \o kind
\* '不允許使用函數: ' + func_name
MsgFunction(name) == "function not allowed: " \o name
\* '不允許存取屬性: ' + attr
MsgAttribute(attr) == "attribute not allowed: " \o attr

\* The loop of lines 319-321: the first alias, in order, outside the allowlist.
RECURSIVE FirstNotAllowed(_)
FirstNotAllowed(names) ==
    IF names = <<>> THEN None
    ELSE IF Head(names) \notin ALLOWED_MODULES THEN Some(Head(names))
    ELSE FirstNotAllowed(Tail(names))

\* CheckNode with a plausible slip in its Call branch.
CheckNode_AnyCallee(node) ==
    CASE node.kind = "Import" ->
            LET bad == FirstNotAllowed(node.names)
            IN  IF bad # None THEN Some(MsgImport(bad[1])) ELSE None
      [] node.kind = "ImportFrom" ->
            IF node.names # <<>> /\ node.names[1] \notin ALLOWED_MODULES
            THEN Some(MsgImport(node.names[1]))
            ELSE None
      [] node.kind \in DANGEROUS_NODES -> Some(MsgNode(node.kind))
      [] node.kind = "Call" ->
            \* The bug: the callee's last name is looked at, bare or not.
            IF node.kids[1].kind \in {"Name", "Attribute"}
               /\ node.kids[1].names[1] \in DANGEROUS_FUNCTIONS
            THEN Some(MsgFunction(node.kids[1].names[1]))
            ELSE None
      [] node.kind = "Attribute" ->
            IF node.names[1] \in dangerous_attrs
            THEN Some(MsgAttribute(node.names[1]))
            ELSE None
      [] OTHER -> None

\* The body of the loop of validate_code_safety for one node, lines 317-342:
\* None when the node passes, Some(message) when the function returns False.
CheckNode(node) ==
    CASE node.kind = "Import" ->
            LET bad == FirstNotAllowed(node.names)
            IN  IF bad # None THEN Some(MsgImport(bad[1])) ELSE None
      [] node.kind = "ImportFrom" ->
            \* if node.module and node.module not in ALLOWED_MODULES
            IF node.names # <<>> /\ node.names[1] \notin ALLOWED_MODULES
            THEN Some(MsgImport(node.names[1]))
            ELSE None
      [] node.kind \in DANGEROUS_NODES -> Some(MsgNode(node.kind))
      [] node.kind = "Call" ->
            IF node.kids[1].kind = "Name"
               /\ node.kids[1].names[1] \in DANGEROUS_FUNCTIONS
            THEN Some(MsgFunction(node.kids[1].names[1]))
            ELSE None
      [] node.kind = "Attribute" ->
            IF node.names[1] \in dangerous_attrs
            THEN Some(MsgAttribute(node.names[1]))
            ELSE None
      [] OTHER -> None

\* WalkFrom with a stack in place of the queue: the children are visited
\* before the node's later siblings (pre-order, depth first).
RECURSIVE WalkFrom_DepthFirst(_)
WalkFrom_DepthFirst(todo) ==
    IF todo = <<>> THEN [is_safe |-> TRUE, error |-> None]
    ELSE LET node == Head(todo)
             bad  == CheckNode(node)
         IN  IF bad # None
             THEN [is_safe |-> FALSE, error |-> bad]
             ELSE WalkFrom_DepthFirst(node.kids \o Tail(todo))

\* WalkFrom that does not go below a call (its callee and arguments are
\* not visited).
RECURSIVE WalkFrom_SkipCallArgs(_)
WalkFrom_SkipCallArgs(todo) ==
    IF todo = <<>> THEN [is_safe |-> TRUE, error |-> None]
    ELSE LET node == Head(todo)
             bad  == CheckNode(node)
         IN  IF bad # None
             THEN [is_safe |-> FALSE, error |-> bad]
             ELSE WalkFrom_SkipCallArgs(
                      IF node.kind = "Call" THEN Tail(todo)
                      ELSE Tail(todo) \o node.kids)

\* for node in ast.walk(tree): ast.walk keeps a queue (a deque), takes the
\* node at its left end, appends that node's children at its right end and
\* yields the node; the validator returns at the first node that fails.
RECURSIVE WalkFrom(_)
WalkFrom(todo) ==
    IF todo = <<>> THEN [is_safe |-> TRUE, error |-> None]
    ELSE LET node == Head(todo)
             bad  == CheckNode(node)
         IN  IF bad # None
             THEN [is_safe |-> FALSE, error |-> bad]
             ELSE WalkFrom(Tail(todo) \o node.kids)

\* validate_code_safety(code), given what ast.parse(code) returns or raises.
validate_code_safety(tree) ==
    IF tree = SyntaxError
    THEN [is_safe |-> FALSE, error |-> Some(MsgSyntax)]
    ELSE WalkFrom(<<tree>>)

-----------------------------------------------------------------------------
(* The sources the validator is run on: every module whose body holds up   *)
(* to MaxBody of the statements below, and a source that does not parse.   *)

MaxBody == 2

PrintX == Expr(Call(Name("print"), <<Name("x")>>))

\* Expressions: harmless ones, a banned call (statement, argument, callee
\* that is not a bare name) and a banned attribute (plain, as callee, as the
\* operand of another attribute).
Exprs ==
    {Name("x"),
     Call(Name("print"), <<Name("x")>>),
     Call(Name("input"), <<>>),
     Call(Name("open"), <<>>),
     Call(Name("print"), <<Call(Name("eval"), <<>>)>>),
     Call(Attribute(Name("x"), "open"), <<>>),
     Attribute(Name("x"), "real"),
     Attribute(Name("x"), "__globals__"),
     Call(Attribute(Name("x"), "__name__"), <<>>),
     Attribute(Attribute(Name("x"), "__builtins__"), "real")}

\* import m / import m.sub / import a, b / from m import x / from .m import x
\* / from . import x; global and nonlocal.
SimpleStmts ==
    {Import(<<m>>) : m \in {"math", "os", "os.path"}}
    \cup {Import(<<a, b>>) : a, b \in {"math", "os"}}
    \cup {ImportFrom(<<m>>, l) : m \in {"math", "os"}, l \in {0, 1}}
    \cup {ImportFrom(<<>>, 1)}
    \cup {Global(<<"g">>), Nonlocal(<<"g">>)}
    \cup {Expr(e) : e \in Exprs}

\* The same statements one and two function bodies down.
NestedStmts ==
    {FunctionDef(<<s>>) :
        s \in {Import(<<"math">>), Import(<<"os">>), ImportFrom(<<>>, 1),
               ImportFrom(<<"os">>, 0), Global(<<"g">>), Nonlocal(<<"g">>),
               Expr(Call(Name("open"), <<>>)),
               Expr(Attribute(Name("x"), "__globals__")),
               Expr(Call(Name("print"), <<Name("x")>>))}}
    \cup {FunctionDef(<<FunctionDef(<<s>>)>>) :
        s \in {Import(<<"os">>), Expr(Call(Name("print"), <<Name("x")>>))}}

\* A banned call as a default value, as a decorator, in a comprehension and
\* as the value of an assignment; a banned attribute as an assignment target.
PositionStmts ==
    {FunctionDefWith(<<Call(Name("eval"), <<>>)>>, <<PrintX>>, <<>>),
     FunctionDefWith(<<>>, <<PrintX>>, <<Call(Name("open"), <<>>)>>),
     Expr(ListComp(Call(Name("exec"), <<>>), Name("x"), Name("x"))),
     Assign(<<Name("x")>>, Call(Name("compile"), <<>>)),
     Assign(<<Attribute(Name("x"), "__file__")>>, Name("x"))}

Stmts == SimpleStmts \cup NestedStmts \cup PositionStmts

RECURSIVE Bodies(_)
Bodies(n) ==
    IF n = 0 THEN {<<>>}
    ELSE LET shorter == Bodies(n - 1)
         IN  shorter \cup {<<s>> \o b : s \in Stmts,
                                        b \in {c \in shorter : Len(c) = n - 1}}

Trees == {Module(b) : b \in Bodies(MaxBody)} \cup {SyntaxError}

-----------------------------------------------------------------------------
(* Requests.  A JSON value is tagged with its type, as isinstance sees it. *)

Str(s) == [type |-> "str", val |-> s]
Num(n) == [type |-> "int", val |-> n]
List(items) == [type |-> "list", val |-> items]
Null == [type |-> "null", val |-> <<>>]

\* The literals of execute_code, lines 423, 437 and 444.
MAX_CODE_LENGTH == 50000
MAX_INPUTS == 100
MAX_INPUT_LENGTH == 1000

\* A source is its length and what ast.parse makes of it; the empty source
\* parses to an empty module.
Code(len, tree) == [len |-> len, tree |-> tree]

EndpointTrees ==
    {Module(<<PrintX>>),
     Module(<<Import(<<"os">>)>>),
     Module(<<ImportFrom(<<>>, 1), PrintX>>),
     SyntaxError}

Codes ==
    {Code(0, Module(<<>>))}
    \cup {Code(n, t) : n \in {MAX_CODE_LENGTH, MAX_CODE_LENGTH + 1},
                       t \in EndpointTrees}

InputValues ==
    {Null,
     List(<<>>),
     List(<<Str("hi")>>),
     List(<<Str("hi"), Str("yo")>>),
     List(<<Num(7)>>),
     List(<<Str(Rep("i", MAX_INPUT_LENGTH))>>),
     List(<<Str("hi"), Str(Rep("i", MAX_INPUT_LENGTH + 1))>>),
     List([i \in 1..MAX_INPUTS |-> Str("v")]),
     List([i \in 1..(MAX_INPUTS + 1) |-> Str("v")])}

\* json: FALSE when request.get_json() gives None (data.get then raises).
Requests ==
    {[endpoint |-> "execute", json |-> TRUE, code |-> c, inputs |-> i] :
        c \in Codes, i \in InputValues}
    \cup {[endpoint |-> "validate", json |-> TRUE, code |-> c,
           inputs |-> List(<<>>)] : c \in Codes}
    \cup {[endpoint |-> e, json |-> FALSE, code |-> Code(0, Module(<<>>)),
           inputs |-> List(<<>>)] : e \in {"execute", "validate"}}

\* The answers: jsonify({'success': ..., 'output' | 'error' | 'message': ...}).
Answer(success, output, error, message) ==
    [success |-> success, output |-> output, error |-> error,
     message |-> message]
Failure(error) == Answer(FALSE, None, error, None)
Success(output) == Answer(TRUE, Some(output), None, None)

\* '沒有收到程式碼'
MsgNoCode == "no code received"
\* '程式碼過長，請縮減程式碼長度'
MsgCodeTooLong == "code too long"
\* 'inputs 必須是列表格式'
MsgInputsNotList == "inputs must be a list"
\* '輸入資料過多（最多 100 個）'
MsgTooManyInputs == "too many inputs (at most 100)"
\* '每個輸入必須是字串且不超過 1000 字元'
MsgBadInput == "each input must be a string of at most 1000 characters"
\* '安全檢查失敗: ' + safety_error
MsgUnsafe(reason) == "safety check failed: " \o reason
\* '伺服器錯誤: ' + str(e)
MsgServerError == "server error"
\* '程式碼安全性檢查通過'
MsgSafe == "safety check passed"
\* '程式執行超時 (5 秒)，可能存在無限迴圈'
MsgTimeout(timeout) ==
    "execution timed out (" \o ToString(timeout) \o " s), possible infinite loop"
\* EOFError('沒有更多輸入資料')
MsgEOF == "no more input data"
\* '\n...(輸出被截斷)'
TruncationMarker == "\n...(output truncated)"
\* '(程式執行成功，無輸出)'
NoOutput == "(program ran successfully, no output)"

\* Python's truth value of result['error'] and of a string.
Truthy(opt) == opt # None /\ opt[1] # ""

-----------------------------------------------------------------------------
(* The execution thread: target() of execute_with_timeout, lines 357-391.  *)
(* What the executed source does is not known to the server; each step of  *)
(* exec is one operation the source may perform, up to MaxSteps of them:   *)
(* a write to standard output or to standard error, a call of input (bare  *)
(* or inside try/except), an exception that nothing catches, or the end    *)
(* of the source.  A thread that takes no further step is a source that    *)
(* loops for ever.                                                         *)

MaxSteps == 3

\* The texts a print may write: print(1+2), and a long text that, with the
\* first, brings the buffer exactly to the cap.
Writes == {"3\n", Rep("y", MAX_OUTPUT_LENGTH - 2)}
ErrWrites == {"warn\n"}
Prompts == {"", "? "}
\* str(e) of what the source may raise: empty for a bare raise of a class or
\* a failed assert.
Raised == {"", "boom"}

\* The list the handler passes on as inputs (strings only, by then).
RECURSIVE Values(_)
Values(items) ==
    IF items = <<>> THEN <<>> ELSE <<Head(items).val>> \o Values(Tail(items))

InputQueue == Values(request[1].inputs.val)

\* What print(name) writes for a name the source has read with input().
ReadValues ==
    {input_log[i][1] \o "\n" :
        i \in {j \in 1..Len(input_log) : input_log[j] # None}}

supervisor_vars ==
    <<request, sup_pc, safety, returned, join_expired, response, n_validate,
      n_threads>>

\* print(text) of the executed source.
ExecWrite(text) ==
    /\ t_pc = "running" /\ steps < MaxSteps
    /\ output_buffer' = output_buffer \o text
    /\ steps' = steps + 1
    /\ UNCHANGED <<t_pc, error_buffer, input_index, input_log, exc, result>>
    /\ UNCHANGED supervisor_vars

\* A write to the redirected standard error.
ExecWriteErr(text) ==
    /\ t_pc = "running" /\ steps < MaxSteps
    /\ error_buffer' = error_buffer \o text
    /\ steps' = steps + 1
    /\ UNCHANGED <<t_pc, output_buffer, input_index, input_log, exc, result>>
    /\ UNCHANGED supervisor_vars

\* safe_input without the advance of the cursor (line 297 left out).
safe_input_NoAdvance(prompt, caught) ==
    /\ t_pc = "running" /\ steps < MaxSteps
    /\ steps' = steps + 1
    /\ IF input_index >= Len(InputQueue)
       THEN /\ input_log' = Append(input_log, None)
            /\ IF caught THEN UNCHANGED <<t_pc, exc>>
                         ELSE t_pc' = "except" /\ exc' = Some(MsgEOF)
            /\ UNCHANGED <<input_index, output_buffer>>
       ELSE LET value == InputQueue[input_index + 1]
            IN  /\ input_index' = input_index
                /\ output_buffer' = output_buffer \o (IF prompt # "" THEN prompt ELSE "")
                                      \o value \o "\n"
                /\ input_log' = Append(input_log, Some(value))
                /\ UNCHANGED <<t_pc, exc>>
    /\ UNCHANGED <<error_buffer, result>>
    /\ UNCHANGED supervisor_vars

\* safe_input that advances the cursor before it tests it (line 297 moved
\* above line 294).
safe_input_AdvanceFirst(prompt, caught) ==
    /\ t_pc = "running" /\ steps < MaxSteps
    /\ steps' = steps + 1
    /\ input_index' = input_index + 1
    /\ IF input_index >= Len(InputQueue)
       THEN /\ input_log' = Append(input_log, None)
            /\ IF caught THEN UNCHANGED <<t_pc, exc>>
                         ELSE t_pc' = "except" /\ exc' = Some(MsgEOF)
            /\ UNCHANGED output_buffer
       ELSE LET value == InputQueue[input_index + 1]
            IN  /\ output_buffer' = output_buffer \o (IF prompt # "" THEN prompt ELSE "")
                                      \o value \o "\n"
                /\ input_log' = Append(input_log, Some(value))
                /\ UNCHANGED <<t_pc, exc>>
    /\ UNCHANGED <<error_buffer, result>>
    /\ UNCHANGED supervisor_vars

\* safe_input without the echo (lines 299-301 left out).
safe_input_NoEcho(prompt, caught) ==
    /\ t_pc = "running" /\ steps < MaxSteps
    /\ steps' = steps + 1
    /\ IF input_index >= Len(InputQueue)
       THEN /\ input_log' = Append(input_log, None)
            /\ IF caught THEN UNCHANGED <<t_pc, exc>>
                         ELSE t_pc' = "except" /\ exc' = Some(MsgEOF)
            /\ UNCHANGED <<input_index, output_buffer>>
       ELSE LET value == InputQueue[input_index + 1]
            IN  /\ input_index' = input_index + 1
                /\ input_log' = Append(input_log, Some(value))
                /\ UNCHANGED <<t_pc, exc, output_buffer>>
    /\ UNCHANGED <<error_buffer, result>>
    /\ UNCHANGED supervisor_vars

\* safe_input(prompt), lines 293-302, called by the executed source; caught
\* says whether the call stands inside a try that catches the EOFError.
safe_input(prompt, caught) ==
    /\ t_pc = "running" /\ steps < MaxSteps
    /\ steps' = steps + 1
    /\ IF input_index >= Len(InputQueue)
       THEN \* raise EOFError
            /\ input_log' = Append(input_log, None)
            /\ IF caught THEN UNCHANGED <<t_pc, exc>>
                         ELSE t_pc' = "except" /\ exc' = Some(MsgEOF)
            /\ UNCHANGED <<input_index, output_buffer>>
       ELSE LET value == InputQueue[input_index + 1]
            IN  /\ input_index' = input_index + 1
                \* print(prompt, end='') if prompt; print(value)
                /\ output_buffer' = output_buffer \o (IF prompt # "" THEN prompt ELSE "")
                                      \o value \o "\n"
                /\ input_log' = Append(input_log, Some(value))
                /\ UNCHANGED <<t_pc, exc>>
    /\ UNCHANGED <<error_buffer, result>>
    /\ UNCHANGED supervisor_vars

\* The source raises an exception (an Exception) that it does not catch.
ExecRaise(msg) ==
    /\ t_pc = "running" /\ steps < MaxSteps
    /\ steps' = steps + 1
    /\ t_pc' = "except" /\ exc' = Some(msg)
    /\ UNCHANGED <<output_buffer, error_buffer, input_index, input_log, result>>
    /\ UNCHANGED supervisor_vars

\* exec returns: the source has run to its end.
ExecEnd ==
    /\ t_pc = "running"
    /\ t_pc' = "collect"
    /\ UNCHANGED <<steps, output_buffer, error_buffer, input_index, input_log,
                   exc, result>>
    /\ UNCHANGED supervisor_vars

\* Collected with >= in place of > at line 382.
Collected_CapInclusive(output, errors) ==
    LET capped == IF Len(output) >= MAX_OUTPUT_LENGTH
                  THEN SubSeq(output, 1, MAX_OUTPUT_LENGTH) \o TruncationMarker
                  ELSE output
        joined == IF errors # ""
                  THEN (IF capped # "" THEN capped \o "\n" \o errors ELSE errors)
                  ELSE capped
    IN  IF joined # "" THEN joined ELSE NoOutput

\* Collected without the sentinel of line 388 (result['output'] = output).
Collected_NoSentinel(output, errors) ==
    LET capped == IF Len(output) > MAX_OUTPUT_LENGTH
                  THEN SubSeq(output, 1, MAX_OUTPUT_LENGTH) \o TruncationMarker
                  ELSE output
        joined == IF errors # ""
                  THEN (IF capped # "" THEN capped \o "\n" \o errors ELSE errors)
                  ELSE capped
    IN  joined

\* Lines 378-388: the output the thread stores, from the two buffers.
Collected(output, errors) ==
    LET capped == IF Len(output) > MAX_OUTPUT_LENGTH
                  THEN SubSeq(output, 1, MAX_OUTPUT_LENGTH) \o TruncationMarker
                  ELSE output
        joined == IF errors # ""
                  THEN (IF capped # "" THEN capped \o "\n" \o errors ELSE errors)
                  ELSE capped
    IN  IF joined # "" THEN joined ELSE NoOutput

\* Line 388: result['output'] = ...
Collect ==
    /\ t_pc = "collect"
    /\ result' = [result EXCEPT !.output = Collected(output_buffer, error_buffer)]
    /\ t_pc' = "exit"
    /\ UNCHANGED <<steps, output_buffer, error_buffer, input_index, input_log, exc>>
    /\ UNCHANGED supervisor_vars

\* Lines 390-391: except Exception as e: result['error'] = str(e)
Except ==
    /\ t_pc = "except"
    /\ result' = [result EXCEPT !.error = Some(exc[1])]
    /\ t_pc' = "exit"
    /\ UNCHANGED <<steps, output_buffer, error_buffer, input_index, input_log, exc>>
    /\ UNCHANGED supervisor_vars

\* target returns and the thread is no longer alive.
ThreadExit ==
    /\ t_pc = "exit"
    /\ t_pc' = "dead"
    /\ UNCHANGED <<steps, output_buffer, error_buffer, input_index, input_log,
                   exc, result>>
    /\ UNCHANGED supervisor_vars

-----------------------------------------------------------------------------
(* The handler of a request: execute_code (lines 406-481) with             *)
(* execute_with_timeout (346-403) inlined where it is called, and          *)
(* validate_code (484-511).                                                *)

thread_vars ==
    <<t_pc, steps, output_buffer, error_buffer, input_index, input_log, exc>>

\* A request arrives.
Receive(req) ==
    /\ sup_pc = "idle"
    /\ request' = Some(req)
    /\ sup_pc' = "check"
    /\ UNCHANGED <<safety, result, returned, join_expired, response,
                   n_validate, n_threads>>
    /\ UNCHANGED thread_vars

\* RequestError with >= in place of > at lines 423, 437 and 444.
RequestError_Inclusive(req) ==
    IF ~req.json THEN Some(MsgServerError)
    ELSE IF req.code.len = 0 THEN Some(MsgNoCode)
    ELSE IF req.code.len >= MAX_CODE_LENGTH THEN Some(MsgCodeTooLong)
    ELSE IF req.inputs.type # "list" THEN Some(MsgInputsNotList)
    ELSE IF Len(req.inputs.val) >= MAX_INPUTS THEN Some(MsgTooManyInputs)
    ELSE IF \E i \in 1..Len(req.inputs.val) :
                \/ req.inputs.val[i].type # "str"
                \/ Len(req.inputs.val[i].val) >= MAX_INPUT_LENGTH
         THEN Some(MsgBadInput)
    ELSE None

\* Lines 412-448 of execute_code: the error the request is turned down with
\* before validation, or None.  data.get on the None of a request without
\* JSON raises and the handler's except answers (477-481).
RequestError(req) ==
    IF ~req.json THEN Some(MsgServerError)
    ELSE IF req.code.len = 0 THEN Some(MsgNoCode)
    ELSE IF req.code.len > MAX_CODE_LENGTH THEN Some(MsgCodeTooLong)
    ELSE IF req.inputs.type # "list" THEN Some(MsgInputsNotList)
    ELSE IF Len(req.inputs.val) > MAX_INPUTS THEN Some(MsgTooManyInputs)
    ELSE IF \E i \in 1..Len(req.inputs.val) :
                \/ req.inputs.val[i].type # "str"
                \/ Len(req.inputs.val[i].val) > MAX_INPUT_LENGTH
         THEN Some(MsgBadInput)
    ELSE None

CheckRequest ==
    /\ sup_pc = "check" /\ request[1].endpoint = "execute"
    /\ LET err == RequestError(request[1])
       IN  IF err # None
           THEN response' = Some(Failure(err)) /\ sup_pc' = "done"
           ELSE UNCHANGED response /\ sup_pc' = "validate"
    /\ UNCHANGED <<request, safety, result, returned, join_expired,
                   n_validate, n_threads>>
    /\ UNCHANGED thread_vars

\* Validate without the test of is_safe (lines 452-456 left out).
Validate_IgnoreVerdict ==
    /\ sup_pc = "validate"
    /\ safety' = Some(validate_code_safety(request[1].code.tree))
    /\ n_validate' = n_validate + 1
    /\ UNCHANGED response /\ sup_pc' = "execute"
    /\ UNCHANGED <<request, result, returned, join_expired, n_threads>>
    /\ UNCHANGED thread_vars

\* Lines 451-456: is_safe, safety_error = validate_code_safety(code)
Validate ==
    /\ sup_pc = "validate"
    /\ LET verdict == validate_code_safety(request[1].code.tree)
       IN  /\ safety' = Some(verdict)
           /\ n_validate' = n_validate + 1
           /\ IF ~verdict.is_safe
              THEN /\ response' = Some(Failure(Some(MsgUnsafe(verdict.error[1]))))
                   /\ sup_pc' = "done"
              ELSE UNCHANGED response /\ sup_pc' = "execute"
    /\ UNCHANGED <<request, result, returned, join_expired, n_threads>>
    /\ UNCHANGED thread_vars

\* Lines 351-395 of execute_with_timeout: the result dict, the thread and
\* its start.  The thread builds its namespace, its input cursor and its two
\* buffers before it runs the source (360-375).
StartThread ==
    /\ sup_pc = "execute"
    /\ result' = [output |-> "", error |-> None, timeout |-> FALSE]
    /\ t_pc' = "running"
    /\ steps' = 0
    /\ output_buffer' = ""
    /\ error_buffer' = ""
    /\ input_index' = 0
    /\ input_log' = <<>>
    /\ exc' = None
    /\ n_threads' = n_threads + 1
    /\ sup_pc' = "join"
    /\ UNCHANGED <<request, safety, returned, join_expired, response, n_validate>>

\* Line 396, thread.join(timeout): comes back when the thread has ended, or
\* when the timeout has passed, however far the thread has got by then.
Join ==
    /\ sup_pc = "join"
    /\ join_expired' = (t_pc # "dead")
    /\ sup_pc' = "is_alive"
    /\ UNCHANGED <<request, safety, result, returned, response, n_validate,
                   n_threads>>
    /\ UNCHANGED thread_vars

\* Line 398: if thread.is_alive()
IsAlive ==
    /\ sup_pc = "is_alive"
    /\ sup_pc' = IF t_pc # "dead" THEN "set_timeout" ELSE "return"
    /\ UNCHANGED <<request, safety, result, returned, join_expired, response,
                   n_validate, n_threads>>
    /\ UNCHANGED thread_vars

\* Line 399: result['timeout'] = True
SetTimeout ==
    /\ sup_pc = "set_timeout"
    /\ result' = [result EXCEPT !.timeout = TRUE]
    /\ sup_pc' = "set_error"
    /\ UNCHANGED <<request, safety, returned, join_expired, response,
                   n_validate, n_threads>>
    /\ UNCHANGED thread_vars

\* Line 400: result['error'] = the message naming the timeout
SetError ==
    /\ sup_pc = "set_error"
    /\ result' = [result EXCEPT !.error = Some(MsgTimeout(EXECUTION_TIMEOUT))]
    /\ sup_pc' = "return"
    /\ UNCHANGED <<request, safety, returned, join_expired, response,
                   n_validate, n_threads>>
    /\ UNCHANGED thread_vars

\* Line 403: return result (the dict itself, which the thread still holds).
Return ==
    /\ sup_pc = "return"
    /\ returned' = Some(result)
    /\ sup_pc' = "read_timeout"
    /\ UNCHANGED <<request, safety, result, join_expired, response,
                   n_validate, n_threads>>
    /\ UNCHANGED thread_vars

\* Line 461: if execution_result['timeout']
ReadTimeout ==
    /\ sup_pc = "read_timeout"
    /\ sup_pc' = IF result.timeout THEN "answer_timeout" ELSE "answer"
    /\ UNCHANGED <<request, safety, result, returned, join_expired, response,
                   n_validate, n_threads>>
    /\ UNCHANGED thread_vars

\* Lines 462-465: the error is read from the dict when the answer is built.
AnswerTimeout ==
    /\ sup_pc = "answer_timeout"
    /\ response' = Some(Failure(result.error))
    /\ sup_pc' = "done"
    /\ UNCHANGED <<request, safety, result, returned, join_expired,
                   n_validate, n_threads>>
    /\ UNCHANGED thread_vars

\* Lines 466-475: elif execution_result['error'] ... else ...
AnswerFinished ==
    /\ sup_pc = "answer"
    /\ response' = IF Truthy(result.error) THEN Some(Failure(result.error))
                   ELSE Some(Success(result.output))
    /\ sup_pc' = "done"
    /\ UNCHANGED <<request, safety, result, returned, join_expired,
                   n_validate, n_threads>>
    /\ UNCHANGED thread_vars

\* validate_code, lines 484-511.
validate_code ==
    /\ sup_pc = "check" /\ request[1].endpoint = "validate"
    /\ IF ~request[1].json
       THEN /\ response' = Some(Failure(Some(MsgServerError)))
            /\ UNCHANGED <<safety, n_validate>>
       ELSE IF request[1].code.len = 0
       THEN /\ response' = Some(Failure(Some(MsgNoCode)))
            /\ UNCHANGED <<safety, n_validate>>
       ELSE LET verdict == validate_code_safety(request[1].code.tree)
            IN  /\ safety' = Some(verdict)
                /\ n_validate' = n_validate + 1
                /\ response' = Some(Answer(verdict.is_safe, None,
                        verdict.error,
                        Some(IF verdict.is_safe THEN MsgSafe
                             ELSE MsgUnsafe(verdict.error[1]))))
    /\ sup_pc' = "done"
    /\ UNCHANGED <<request, result, returned, join_expired, n_threads>>
    /\ UNCHANGED thread_vars

-----------------------------------------------------------------------------
(* The credential pool: api_keys_list, current_key_index and api_key_lock  *)
(* (lines 79-81), get_next_api_key (114-124) and                           *)
(* get_gemini_model_with_retry (126-168), called by the threads that       *)
(* serve the requests (app.run(threaded=True), line 1647).  A thread is    *)
(* either outside the two functions (idle) or at one of their lines.       *)

\* The calls of the two functions made in all.
MaxCalls == 3
\* The largest max_retries a caller passes.
MaxRetries == 2

Callers == {"t1", "t2"}

\* The lists load_api_keys may leave in api_keys_list (83-112): none, or
\* the non-empty keys of the file.
KeyLists == {<<>>, <<"k1">>, <<"k1", "k2">>, <<"k1", "k2", "k3">>}

\* max_retries as passed: None (try every key) or a number.
RetryArgs == {None} \cup {Some(n) : n \in 1..MaxRetries}

\* The frame of a thread: where it stands (pc), whether its call of
\* get_next_api_key was made by get_gemini_model_with_retry (in_retry), the
\* locals max_retries, attempt and key / api_key, the keys the call has
\* obtained (tried) and how their probes ended (probes), and what the call
\* returned once it has (done, value).
IdleFrame ==
    [pc |-> "idle", in_retry |-> FALSE, max_retries |-> 0, attempt |-> 0,
     key |-> None, tried |-> <<>>, probes |-> <<>>, done |-> FALSE,
     value |-> None]

pool_vars ==
    <<api_keys_list, current_key_index, api_key_lock, caller, key_log, n_calls>>

\* A thread calls get_next_api_key().
CallGetNextApiKey(t) ==
    /\ caller[t].pc = "idle" /\ n_calls < MaxCalls
    /\ caller' = [caller EXCEPT ![t] = [IdleFrame EXCEPT !.pc = "gk_check"]]
    /\ n_calls' = n_calls + 1
    /\ UNCHANGED <<api_keys_list, current_key_index, api_key_lock, key_log>>

\* A thread calls get_gemini_model_with_retry(max_retries); max_retries
\* None stands for len(api_keys_list) (lines 135-136; the list is fixed).
CallWithRetry(t, max_retries) ==
    /\ caller[t].pc = "idle" /\ n_calls < MaxCalls
    /\ caller' = [caller EXCEPT ![t] =
            [IdleFrame EXCEPT !.pc = "retry_check", !.in_retry = TRUE,
                              !.max_retries = IF max_retries = None
                                              THEN Len(api_keys_list)
                                              ELSE max_retries[1]]]
    /\ n_calls' = n_calls + 1
    /\ UNCHANGED <<api_keys_list, current_key_index, api_key_lock, key_log>>

\* Lines 131-132: if not api_keys_list: return None
RetryCheck(t) ==
    /\ caller[t].pc = "retry_check"
    /\ caller' = [caller EXCEPT ![t] =
            IF api_keys_list = <<>>
            THEN [@ EXCEPT !.pc = "idle", !.done = TRUE, !.value = None]
            ELSE [@ EXCEPT !.pc = "loop", !.attempt = 0]]
    /\ UNCHANGED <<api_keys_list, current_key_index, api_key_lock, key_log,
                   n_calls>>

\* Line 145, for attempt in range(max_retries): the next attempt calls
\* get_next_api_key (147); after the last one, return None (168).
Loop(t) ==
    /\ caller[t].pc = "loop"
    /\ caller' = [caller EXCEPT ![t] =
            IF @.attempt < @.max_retries
            THEN [@ EXCEPT !.pc = "gk_check"]
            ELSE [@ EXCEPT !.pc = "idle", !.done = TRUE, !.value = None]]
    /\ UNCHANGED <<api_keys_list, current_key_index, api_key_lock, key_log,
                   n_calls>>

\* get_next_api_key returns value: to get_gemini_model_with_retry, which
\* holds it as api_key and goes on at line 148, or to the thread.
Returned(frame, value) ==
    IF frame.in_retry
    THEN [frame EXCEPT !.pc = "probe", !.key = value,
                       !.tried = IF value = None THEN frame.tried
                                 ELSE Append(frame.tried, value[1])]
    ELSE [frame EXCEPT !.pc = "idle", !.key = value, !.done = TRUE,
                       !.value = value]

\* Lines 118-119: if not api_keys_list: return None
GkCheck(t) ==
    /\ caller[t].pc = "gk_check"
    /\ caller' = [caller EXCEPT ![t] =
            IF api_keys_list = <<>> THEN Returned(caller[t], None)
            ELSE [@ EXCEPT !.pc = "gk_lock"]]
    /\ UNCHANGED <<api_keys_list, current_key_index, api_key_lock, key_log,
                   n_calls>>

\* AcquireLock without the lock: line 121 left out.
AcquireLock_NoLock(t) ==
    /\ caller[t].pc = "gk_lock"
    /\ caller' = [caller EXCEPT ![t].pc = "gk_read"]
    /\ UNCHANGED <<api_keys_list, current_key_index, api_key_lock, key_log,
                   n_calls>>

\* Line 121, with api_key_lock: the thread waits until the lock is free.
AcquireLock(t) ==
    /\ caller[t].pc = "gk_lock"
    /\ api_key_lock = None
    /\ api_key_lock' = Some(t)
    /\ caller' = [caller EXCEPT ![t].pc = "gk_read"]
    /\ UNCHANGED <<api_keys_list, current_key_index, key_log, n_calls>>

\* Line 122: key = api_keys_list[current_key_index]
ReadKey(t) ==
    /\ caller[t].pc = "gk_read"
    /\ LET key == api_keys_list[current_key_index + 1]
       IN  /\ caller' = [caller EXCEPT ![t].pc = "gk_advance",
                                       ![t].key = Some(key)]
           /\ key_log' = Append(key_log, key)
    /\ UNCHANGED <<api_keys_list, current_key_index, api_key_lock, n_calls>>

\* Line 123: current_key_index = (current_key_index + 1) % len(api_keys_list)
AdvanceIndex(t) ==
    /\ caller[t].pc = "gk_advance"
    /\ current_key_index' = (current_key_index + 1) % Len(api_keys_list)
    /\ caller' = [caller EXCEPT ![t].pc = "gk_release"]
    /\ UNCHANGED <<api_keys_list, api_key_lock, key_log, n_calls>>

\* Line 124: return key, which leaves the with block and frees the lock.
ReleaseLock(t) ==
    /\ caller[t].pc = "gk_release"
    /\ api_key_lock' = None
    /\ caller' = [caller EXCEPT ![t] = Returned(caller[t], caller[t].key)]
    /\ UNCHANGED <<api_keys_list, current_key_index, key_log, n_calls>>

\* Lines 148-166: without a key, continue; genai.configure and
\* genai.GenerativeModel either give the model, which is returned (the
\* model is held as the key it was configured with), or raise (ok = FALSE):
\* the next attempt follows, or None after the last one.
Probe(t, ok) ==
    /\ caller[t].pc = "probe"
    /\ LET frame == caller[t]
       IN  caller' = [caller EXCEPT ![t] =
            IF frame.key = None
            THEN [frame EXCEPT !.pc = "loop", !.attempt = frame.attempt + 1]
            ELSE IF ok
            THEN [frame EXCEPT !.pc = "idle", !.done = TRUE,
                               !.value = frame.key,
                               !.probes = Append(frame.probes, TRUE)]
            ELSE IF frame.attempt < frame.max_retries - 1
            THEN [frame EXCEPT !.pc = "loop", !.attempt = frame.attempt + 1,
                               !.probes = Append(frame.probes, FALSE)]
            ELSE [frame EXCEPT !.pc = "idle", !.done = TRUE, !.value = None,
                               !.probes = Append(frame.probes, FALSE)]]
    /\ UNCHANGED <<api_keys_list, current_key_index, api_key_lock, key_log,
                   n_calls>>

-----------------------------------------------------------------------------
(* Executions side by side.  Each request is served by a thread of its own *)
(* (line 1647) and each execution by one more (393-395); every target      *)
(* redirects standard output with contextlib.redirect_stdout (375), which  *)
(* saves the object sys.stdout names and makes sys.stdout name the         *)
(* execution's buffer on entry, and puts the saved object back on exit.    *)
(* sys.stdout belongs to the process; print writes to whatever it names at *)
(* the moment of the call.  Standard error is redirected the same way and  *)
(* is left out here.                                                       *)

\* The prints each source makes, and those the rest of the server makes.
MaxPrints == 2

Runs == {"r1", "r2"}

\* What a source prints, or echoes from its inputs: its own text.
TextOf(r) == IF r = "r1" THEN "a\n" ELSE "b\n"
\* What another thread of the server prints, e.g. line 156.
ServerText == "key\n"

\* An execution: where its thread stands (none | enter | set | exec | exit |
\* collect | done), the object its redirect saved, its buffer, what its
\* source has written so far, and result['output'] once it is stored.
NoRun ==
    [pc |-> "none", old_target |-> None, output_buffer |-> "", prints |-> 0,
     written |-> "", output |-> None]

stdout_vars == <<sys_stdout, run, n_prints>>

\* The buffers after a print of text by any thread: it goes to the buffer
\* sys.stdout names, or to the console.
Printed(runs, text) ==
    IF sys_stdout = None THEN runs
    ELSE [runs EXCEPT ![sys_stdout[1]].output_buffer =
                          runs[sys_stdout[1]].output_buffer \o text]

\* Lines 371-372 and 393-395: an execution's thread starts and makes its
\* buffer.
StartRun(r) ==
    /\ run[r].pc = "none"
    /\ run' = [run EXCEPT ![r] = [NoRun EXCEPT !.pc = "enter"]]
    /\ UNCHANGED <<sys_stdout, n_prints>>

\* Line 375, redirect_stdout.__enter__: the object sys.stdout names is saved
EnterSave(r) ==
    /\ run[r].pc = "enter"
    /\ run' = [run EXCEPT ![r].old_target = sys_stdout, ![r].pc = "set"]
    /\ UNCHANGED <<sys_stdout, n_prints>>

\* and sys.stdout is made to name the execution's buffer.
EnterSet(r) ==
    /\ run[r].pc = "set"
    /\ sys_stdout' = Some(r)
    /\ run' = [run EXCEPT ![r].pc = "exec"]
    /\ UNCHANGED n_prints

\* Line 376, exec: the source prints, or safe_input echoes (299-301).
RunPrint(r) ==
    /\ run[r].pc = "exec" /\ run[r].prints < MaxPrints
    /\ run' = Printed([run EXCEPT ![r].prints = run[r].prints + 1,
                                  ![r].written = run[r].written \o TextOf(r)],
                      TextOf(r))
    /\ UNCHANGED <<sys_stdout, n_prints>>

\* exec returns or raises.
RunEnd(r) ==
    /\ run[r].pc = "exec"
    /\ run' = [run EXCEPT ![r].pc = "exit"]
    /\ UNCHANGED <<sys_stdout, n_prints>>

\* redirect_stdout.__exit__: sys.stdout names the saved object again.
ExitRestore(r) ==
    /\ run[r].pc = "exit"
    /\ sys_stdout' = run[r].old_target
    /\ run' = [run EXCEPT ![r].pc = "collect"]
    /\ UNCHANGED n_prints

\* Lines 378-388: the output is made from the execution's buffer.
CollectRun(r) ==
    /\ run[r].pc = "collect"
    /\ run' = [run EXCEPT ![r].output = Some(Collected(run[r].output_buffer, "")),
                          ![r].pc = "done"]
    /\ UNCHANGED <<sys_stdout, n_prints>>

\* Another thread of the server prints.
ServerPrint ==
    /\ n_prints < MaxPrints
    /\ n_prints' = n_prints + 1
    /\ run' = Printed(run, ServerText)
    /\ UNCHANGED sys_stdout

-----------------------------------------------------------------------------
(* The restricted environment: the namespace target builds at lines        *)
(* 359-367 and what a validated source can reach through it.               *)

\* Executions started in all (a new one may follow one that has ended).
MaxExecs == 3

\* The objects a source can hold: a function of the interpreter, a function
\* defined in server.py (owner: the execution whose closure it is, if any),
\* another object of the process, a string, a bound method, and the
\* exception an evaluation raised.
Builtin(name) == [t |-> "builtin", name |-> name, owner |-> ""]
Function(name, owner) == [t |-> "function", name |-> name, owner |-> owner]
Object(name) == [t |-> "object", name |-> name, owner |-> ""]
StrValue(s) == [t |-> "str", name |-> s, owner |-> ""]
Method(obj, name) == [t |-> "method", name |-> name, owner |-> obj]
Raise(msg) == [t |-> "raise", name |-> msg, owner |-> ""]

\* SAFE_BUILTINS, lines 201-243: each key names the interpreter's own
\* function, '__import__': __import__ included.
SAFE_BUILTINS ==
    [n \in
    {"print", "len", "str", "int", "float", "bool", "list", "dict", "tuple",
     "set", "range", "enumerate", "zip", "sum", "min", "max", "abs", "round",
     "sorted", "reversed", "type", "isinstance", "hasattr", "getattr", "chr",
     "ord", "bin", "hex", "oct", "pow", "divmod", "all", "any", "filter",
     "map", "complex", "__import__"} |-> Builtin(n)]

\* A dict after d[key] = value.
SetItem(d, key, value) ==
    [k \in DOMAIN d \cup {key} |-> IF k = key THEN value ELSE d[k]]

Constant(value) == Node("Constant", <<value>>, 0, <<>>)
Subscript(value, slice) == Node("Subscript", <<>>, 0, <<value, slice>>)

\* The sources executed: the body of each module.
\*   name = input('? '); print(name)
ReadAndPrint ==
    <<Assign(<<Name("name")>>, Call(Name("input"), <<Constant("? ")>>)),
      Expr(Call(Name("print"), <<Name("name")>>))>>

\* The sources executed, each the body of a module.
EnvSources ==
    {ReadAndPrint,
     \* input(); input()
     <<Expr(Call(Name("input"), <<>>)), Expr(Call(Name("input"), <<>>))>>,
     \* import math; print('x')
     <<Import(<<"math">>), Expr(Call(Name("print"), <<Constant("x")>>))>>,
     \* import os
     <<Import(<<"os">>)>>,
     \* from . import x; print('x')
     <<ImportFrom(<<>>, 1), Expr(Call(Name("print"), <<Constant("x")>>))>>,
     \* __import__('os')
     <<Expr(Call(Name("__import__"), <<Constant("os")>>))>>,
     \* getattr(__import__, '__globals__')['ALLOWED_MODULES'].add('sys')
     <<Expr(Call(Attribute(Subscript(Call(Name("getattr"),
     <<Name("__import__"), Constant("__globals__")>>),
     Constant("ALLOWED_MODULES")), "add"), <<Constant("sys")>>))>>,
     \* getattr(__import__, '__globals__')['__builtins__'].__import__('os')
     <<Expr(Call(Attribute(Subscript(Call(Name("getattr"),
     <<Name("__import__"), Constant("__globals__")>>),
     Constant("__builtins__")), "__import__"), <<Constant("os")>>))>>,
     \* getattr(input, '__globals__')['SAFE_BUILTINS'].pop('len')
     <<Expr(Call(Attribute(Subscript(Call(Name("getattr"),
     <<Name("input"), Constant("__globals__")>>),
     Constant("SAFE_BUILTINS")), "pop"), <<Constant("len")>>))>>}

\* An execution: where its thread stands (none | build | exec | done |
\* failed | refused), its source and inputs, the statement it executes next,
\* safe_globals['__builtins__'], input_index[0] of its safe_input, what its
\* calls of input returned, the names it has assigned, and str(e) of the
\* exception that ended it (or the validator's message).
NoEnv ==
    [pc |-> "none", source |-> <<>>, inputs |-> <<>>, ip |-> 0,
     builtins |-> <<>>, cursor |-> 0, reads |-> <<>>, locals |-> {},
     error |-> None]

env_vars == <<safe_builtins, allowed_modules, env, import_log, n_execs>>

\* What a read from the console of the server would give.
NativeRead == "<stdin>"

\* obj.attr, for the objects a source can hold.  Only the functions defined
\* in server.py carry __globals__; the interpreter's own functions do not.
GetAttr(obj, attr) ==
    CASE obj.t = "raise" -> obj
      [] obj.t = "function" /\ attr = "__globals__" -> Object("globals")
      [] obj = Object("ALLOWED_MODULES") /\ attr = "add" ->
            Method("ALLOWED_MODULES", "add")
      [] obj = Object("SAFE_BUILTINS") /\ attr = "pop" ->
            Method("SAFE_BUILTINS", "pop")
      [] obj = Object("builtins") /\ attr = "__import__" ->
            Builtin("__import__")
      [] OTHER -> Raise("no attribute: " \o attr)

\* obj[key]: the globals of server.py hold its tables and __builtins__,
\* the module that line 285 reads __import__ from.
GetItem(obj, key) ==
    CASE obj.t = "raise" -> obj
      [] key.t = "raise" -> key
      [] obj = Object("globals") /\ key.t = "str"
            /\ key.name \in {"ALLOWED_MODULES", "SAFE_BUILTINS"} ->
            Object(key.name)
      [] obj = Object("globals") /\ key = StrValue("__builtins__") ->
            Object("builtins")
      [] OTHER -> Raise("KeyError")

\* The value of an expression in the namespace of execution e: a name is
\* looked up in safe_locals, then in safe_globals['__builtins__'].
RECURSIVE Eval(_, _)
Eval(expr, e) ==
    CASE expr.kind = "Constant" -> StrValue(expr.names[1])
      [] expr.kind = "Name" ->
            LET id == expr.names[1]
            IN  IF id \in e.locals THEN StrValue("")
                ELSE IF id \in DOMAIN e.builtins THEN e.builtins[id]
                ELSE Raise("name is not defined: " \o id)
      [] expr.kind = "Attribute" ->
            GetAttr(Eval(expr.kids[1], e), expr.names[1])
      [] expr.kind = "Subscript" ->
            GetItem(Eval(expr.kids[1], e), Eval(expr.kids[2], e))
      [] expr.kind = "Call" ->
            LET f == Eval(expr.kids[1], e)
            IN  IF f.t = "raise" THEN f
                ELSE IF f = Builtin("getattr") /\ Len(expr.kids) = 3
                THEN GetAttr(Eval(expr.kids[2], e), Eval(expr.kids[3], e).name)
                ELSE StrValue("")
      [] OTHER -> StrValue("")

\* Lines 277-285: what safe_import raises, and the name
\* __builtins__.__import__ is called with; for level > 0 that call raises
\* 'attempted relative import with no known parent package'.
safe_import(name, level) ==
    IF name \notin allowed_modules
    THEN [raised |-> Some(MsgImport(name)), real |-> None]
    ELSE [raised |-> IF level > 0
                     THEN Some("relative import without a parent package")
                     ELSE None,
          real |-> Some(name)]

\* The endpoint validates the source, then line 346 starts its execution.
StartExecution(r, source, inputs) ==
    /\ n_execs < MaxExecs
    /\ env[r].pc \in {"none", "done", "failed", "refused"}
    /\ n_execs' = n_execs + 1
    /\ LET verdict == validate_code_safety(Module(source))
       IN  env' = [env EXCEPT ![r] =
                      [NoEnv EXCEPT !.pc = IF verdict.is_safe THEN "build"
                                           ELSE "refused",
                                    !.cursor = env[r].cursor,
                                    !.source = source,
                                    !.inputs = inputs,
                                    !.error = verdict.error]]
    /\ UNCHANGED <<safe_builtins, allowed_modules, import_log>>

\* BuildNamespace with one simulated input shared by the executions.
BuildNamespace_SharedInput(r) ==
    /\ env[r].pc = "build"
    /\ env' = [env EXCEPT ![r] =
                  [@ EXCEPT !.pc = "exec",
                            !.ip = 1,
                            !.builtins =
                                SetItem(SetItem(safe_builtins, "__import__",
                                                Function("safe_import", "")),
                                        "input", Function("safe_input", "r1"))]]
    /\ UNCHANGED <<safe_builtins, allowed_modules, import_log, n_execs>>

\* Lines 359-367: the namespace is a copy of SAFE_BUILTINS in which
\* __import__ names safe_import and input names a new safe_input, whose
\* input_index starts at 0.
BuildNamespace(r) ==
    /\ env[r].pc = "build"
    /\ env' = [env EXCEPT ![r] =
                  [@ EXCEPT !.pc = "exec",
                            !.ip = 1,
                            !.cursor = 0,
                            !.builtins =
                                SetItem(SetItem(safe_builtins, "__import__",
                                                Function("safe_import", "")),
                                        "input", Function("safe_input", r))]]
    /\ UNCHANGED <<safe_builtins, allowed_modules, import_log, n_execs>>

\* The execution after its statement: past the last one exec returns.
Advanced(e, assigned) ==
    LET next == [e EXCEPT !.ip = @ + 1, !.locals = @ \cup assigned]
    IN  IF next.ip > Len(next.source) THEN [next EXCEPT !.pc = "done"]
        ELSE next

\* Line 374: the exception leaves exec, result['error'] = str(e).
Failed(e, msg) == [e EXCEPT !.pc = "failed", !.error = Some(msg)]

\* Execution r calls f with arg (and level, for an import statement), in a
\* statement that assigns the names of assigned.
Apply(r, f, arg, level, assigned) ==
    CASE f.t = "raise" ->
            /\ env' = [env EXCEPT ![r] = Failed(@, f.name)]
            /\ UNCHANGED <<safe_builtins, allowed_modules, import_log>>
      [] f.t # "raise" /\ arg.t = "raise" ->
            /\ env' = [env EXCEPT ![r] = Failed(@, arg.name)]
            /\ UNCHANGED <<safe_builtins, allowed_modules, import_log>>
      [] f = Function("safe_import", "") /\ arg.t # "raise" ->
            LET call == safe_import(arg.name, level)
            IN  /\ import_log' = import_log \o call.real
                /\ env' = [env EXCEPT ![r] =
                              IF call.raised # None
                              THEN Failed(@, call.raised[1])
                              ELSE Advanced(@, assigned)]
                /\ UNCHANGED <<safe_builtins, allowed_modules>>
      [] f = Builtin("__import__") /\ arg.t # "raise" ->
            \* the interpreter's own import, for any name
            /\ import_log' = Append(import_log, arg.name)
            /\ env' = [env EXCEPT ![r] = Advanced(@, assigned)]
            /\ UNCHANGED <<safe_builtins, allowed_modules>>
      [] f.t = "function" /\ f.name = "safe_input" /\ arg.t # "raise" ->
            \* lines 291-303, on the input_queue and input_index of the
            \* execution the closure was made for
            LET o == f.owner
            IN  IF env[o].cursor >= Len(env[o].inputs)
                THEN /\ env' = [env EXCEPT ![r] = Failed(@, MsgEOF)]
                     /\ UNCHANGED <<safe_builtins, allowed_modules, import_log>>
                ELSE LET value == env[o].inputs[env[o].cursor + 1]
                         moved == [env EXCEPT ![o].cursor = @ + 1]
                     IN  /\ env' = [moved EXCEPT ![r] =
                                       Advanced([@ EXCEPT !.reads =
                                                    Append(@, value)],
                                                assigned)]
                         /\ UNCHANGED <<safe_builtins, allowed_modules,
                                        import_log>>
      [] f = Builtin("input") /\ arg.t # "raise" ->
            /\ env' = [env EXCEPT ![r] =
                          Advanced([@ EXCEPT !.reads = Append(@, NativeRead)],
                                   assigned)]
            /\ UNCHANGED <<safe_builtins, allowed_modules, import_log>>
      [] f = Method("ALLOWED_MODULES", "add") /\ arg.t # "raise" ->
            /\ allowed_modules' = allowed_modules \cup {arg.name}
            /\ env' = [env EXCEPT ![r] = Advanced(@, assigned)]
            /\ UNCHANGED <<safe_builtins, import_log>>
      [] f = Method("SAFE_BUILTINS", "pop") /\ arg.t # "raise" ->
            IF arg.name \in DOMAIN safe_builtins
            THEN /\ safe_builtins' =
                        [k \in DOMAIN safe_builtins \ {arg.name} |->
                            safe_builtins[k]]
                 /\ env' = [env EXCEPT ![r] = Advanced(@, assigned)]
                 /\ UNCHANGED <<allowed_modules, import_log>>
            ELSE /\ env' = [env EXCEPT ![r] = Failed(@, "KeyError")]
                 /\ UNCHANGED <<safe_builtins, allowed_modules, import_log>>
      [] OTHER ->
            /\ env' = [env EXCEPT ![r] = Advanced(@, assigned)]
            /\ UNCHANGED <<safe_builtins, allowed_modules, import_log>>

\* exec reaches an import statement: the interpreter calls the __import__
\* of the namespace's __builtins__ with the module name ('' for
\* 'from . import x') and the level.
ExecImport(r) ==
    /\ env[r].pc = "exec"
    /\ env[r].ip <= Len(env[r].source)
    /\ LET stmt == env[r].source[env[r].ip]
       IN  /\ stmt.kind \in {"Import", "ImportFrom"}
           /\ Apply(r, env[r].builtins["__import__"],
                    StrValue(IF stmt.names = <<>> THEN "" ELSE stmt.names[1]),
                    stmt.level, {})
    /\ UNCHANGED n_execs

\* exec reaches an expression statement or an assignment.
ExecCall(r) ==
    /\ env[r].pc = "exec"
    /\ env[r].ip <= Len(env[r].source)
    /\ LET stmt == env[r].source[env[r].ip]
           value == stmt.kids[Len(stmt.kids)]
           assigned ==
               IF stmt.kind = "Assign"
               THEN {stmt.kids[i].names[1] : i \in 1..(Len(stmt.kids) - 1)}
               ELSE {}
       IN  /\ stmt.kind \in {"Expr", "Assign"}
           /\ IF value.kind = "Call"
              THEN Apply(r, Eval(value.kids[1], env[r]),
                         IF Len(value.kids) >= 2
                         THEN Eval(value.kids[2], env[r]) ELSE StrValue(""),
                         0, assigned)
              ELSE Apply(r, IF Eval(value, env[r]).t = "raise"
                            THEN Eval(value, env[r]) ELSE StrValue(""),
                         StrValue(""), 0, assigned)
    /\ UNCHANGED n_execs

-----------------------------------------------------------------------------
(* The local score backup: write_score_via_webapp, lines 1362-1462, called *)
(* by the request threads of the server (line 1647: threaded=True).        *)

\* Calls of write_score_via_webapp made in all, and the highest score.
MaxSubmits == 3
MaxScore == 2

Writers == {"w1", "w2"}
\* The (student_name, question_id) pairs submitted, with scores of
\* 1..MaxScore.
Pairs == {<<"amy", "1">>, <<"amy", "2">>, <<"bob", "1">>}

\* The frame of a thread: where it stands in write_score_via_webapp (idle |
\* read | update | write | returned), its arguments (timestamp: the ordinal
\* of the submission, in place of the time of day submit_score formats),
\* its scores_data and what it returned.
IdleWriter ==
    [pc |-> "idle", student_name |-> "", question_id |-> "", score |-> 0,
     timestamp |-> 0, scores_data |-> <<>>, ret |-> None]

backup_vars == <<scores_file, writer, score_log, n_submits>>

\* Lines 1423-1433 with a plausible slip: an equal score updates too.
Updated_OrEqual(data, student_name, question_id, score, timestamp) ==
    LET found == {i \in 1..Len(data) :
                     /\ data[i].student_name = student_name
                     /\ data[i].question_id = question_id}
    IN  IF found # {}
        THEN LET i == CHOOSE j \in found : \A k \in found : j <= k
             IN  IF score >= data[i].score
                 THEN [data EXCEPT ![i] = [@ EXCEPT !.score = score,
                                                    !.timestamp = timestamp]]
                 ELSE data
        ELSE Append(data, [student_name |-> student_name,
                           question_id |-> question_id,
                           score |-> score, timestamp |-> timestamp])

\* Lines 1422-1453: the first record of the pair is updated when the score
\* is higher (timestamp, code and the four detailed scores change with it)
\* and is left alone otherwise; without such a record a new one is appended.
Updated(data, student_name, question_id, score, timestamp) ==
    LET found == {i \in 1..Len(data) :
                     /\ data[i].student_name = student_name
                     /\ data[i].question_id = question_id}
    IN  IF found # {}
        THEN LET i == CHOOSE j \in found : \A k \in found : j <= k
             IN  IF score > data[i].score
                 THEN [data EXCEPT ![i] = [@ EXCEPT !.score = score,
                                                    !.timestamp = timestamp]]
                 ELSE data
        ELSE Append(data, [student_name |-> student_name,
                           question_id |-> question_id,
                           score |-> score, timestamp |-> timestamp])

\* Lines 1362-1413: the call, up to the attempt to write to Google Sheets,
\* whose outcome changes nothing of what follows.
CallWrite(t, student_name, question_id, score) ==
    /\ n_submits < MaxSubmits
    /\ writer[t].pc \in {"idle", "returned"}
    /\ n_submits' = n_submits + 1
    /\ score_log' = Append(score_log,
                           [student_name |-> student_name,
                            question_id |-> question_id,
                            score |-> score, timestamp |-> n_submits + 1])
    /\ writer' = [writer EXCEPT ![t] =
                     [IdleWriter EXCEPT !.pc = "read",
                                        !.student_name = student_name,
                                        !.question_id = question_id,
                                        !.score = score,
                                        !.timestamp = n_submits + 1]]
    /\ UNCHANGED scores_file

\* Lines 1416-1421: scores_data = [] or what scores_backup.json holds.
ReadBackup(t) ==
    /\ writer[t].pc = "read"
    /\ writer' = [writer EXCEPT ![t] =
                     [@ EXCEPT !.pc = "update",
                               !.scores_data = IF scores_file = None THEN <<>>
                                               ELSE scores_file[1]]]
    /\ UNCHANGED <<scores_file, score_log, n_submits>>

\* Lines 1423-1453, on the thread's own scores_data.
UpdateRecords(t) ==
    /\ writer[t].pc = "update"
    /\ writer' = [writer EXCEPT ![t] =
                     [@ EXCEPT !.pc = "write",
                               !.scores_data =
                                   Updated(writer[t].scores_data,
                                           writer[t].student_name,
                                           writer[t].question_id,
                                           writer[t].score,
                                           writer[t].timestamp)]]
    /\ UNCHANGED <<scores_file, score_log, n_submits>>

\* Lines 1455-1458: json.dump(scores_data, f), return True.
WriteBackup(t) ==
    /\ writer[t].pc = "write"
    /\ scores_file' = Some(writer[t].scores_data)
    /\ writer' = [writer EXCEPT ![t] = [@ EXCEPT !.pc = "returned",
                                                 !.ret = Some(TRUE)]]
    /\ UNCHANGED <<score_log, n_submits>>

-----------------------------------------------------------------------------
(* The question cache: lines 38-40 and the three endpoints of lines        *)
(* 1084-1218.                                                              *)

CACHE_EXPIRE_MINUTES == 30

\* The clock of the server runs, minute by minute, up to MaxClock.
MaxClock == 31

\* What fetch_questions_from_sheet returns: None (here <<>>, falsy like the
\* empty list) or the list of the questions of the sheet.
Fetched == {None, <<[id |-> "1"]>>, <<[id |-> "1"], [id |-> "2"]>>}

cache_vars ==
    <<questions_cache, questions_last_fetch, questions_file, now,
      cache_filled, answer>>

\* The error texts are '無法讀取題目資料' (cannot read the questions),
\* '找不到題目 ID: ' + question_id (question not found) and
\* '無法從 Google Sheets 讀取題目' (cannot read the sheet).

\* An answer: the endpoint, success, whether fetch_questions_from_sheet was
\* called, whether the questions answered are those questions_cache held,
\* and then the minutes since questions_cache was assigned.
AnswerOf(endpoint, success, fetched, from_cache, age, error) ==
    [endpoint |-> endpoint, success |-> success, fetched |-> fetched,
     from_cache |-> from_cache, age |-> age, error |-> error]

\* Time passes.
Tick ==
    /\ now < MaxClock
    /\ now' = now + 1
    /\ UNCHANGED <<questions_cache, questions_last_fetch, questions_file,
                   cache_filled, answer>>

\* Lines 1084-1136; questions: what fetch_questions_from_sheet returns if
\* it is called.
get_questions(questions) ==
    IF /\ questions_cache # <<>>
       /\ questions_last_fetch # None
       /\ now - questions_last_fetch[1] < CACHE_EXPIRE_MINUTES
    THEN /\ answer' = Some(AnswerOf("get_questions", TRUE, FALSE, TRUE,
                                    now - cache_filled, None))
         /\ UNCHANGED <<questions_cache, questions_last_fetch, questions_file,
                        now, cache_filled>>
    ELSE IF questions # <<>>
    THEN /\ questions_cache' = questions
         /\ questions_last_fetch' = Some(now)
         /\ cache_filled' = now
         /\ answer' = Some(AnswerOf("get_questions", TRUE, TRUE, FALSE, 0,
                                    None))
         /\ UNCHANGED <<questions_file, now>>
    ELSE /\ answer' = Some(AnswerOf("get_questions", questions_file # None,
                                    TRUE, FALSE, 0,
                                    IF questions_file # None THEN None
                                    ELSE Some("cannot read the questions")))
         /\ UNCHANGED <<questions_cache, questions_last_fetch, questions_file,
                        now, cache_filled>>

\* Lines 1138-1183.
get_question_by_id(question_id, questions) ==
    LET filled ==
            IF questions_cache # <<>> THEN questions_cache
            ELSE IF questions # <<>> THEN questions
            ELSE IF questions_file # None THEN questions_file[1]
            ELSE <<>>
        held == questions_cache # <<>>
    IN  /\ questions_cache' = filled
        /\ cache_filled' = IF ~held /\ filled # <<>> THEN now ELSE cache_filled
        /\ answer' =
              Some(IF filled = <<>>
                   THEN AnswerOf("get_question_by_id", FALSE, TRUE, FALSE, 0,
                                 Some("cannot read the questions"))
                   ELSE IF \E i \in 1..Len(filled) : filled[i].id = question_id
                   THEN AnswerOf("get_question_by_id", TRUE, ~held, held,
                                 IF held THEN now - cache_filled ELSE 0, None)
                   ELSE AnswerOf("get_question_by_id", FALSE, ~held, held,
                                 IF held THEN now - cache_filled ELSE 0,
                                 Some("question not found")))
        /\ UNCHANGED <<questions_last_fetch, questions_file, now>>

\* Lines 1185-1218.
refresh_questions(questions) ==
    IF questions # <<>>
    THEN /\ questions_cache' = questions
         /\ questions_last_fetch' = Some(now)
         /\ cache_filled' = now
         /\ questions_file' = Some(questions)
         /\ answer' = Some(AnswerOf("refresh_questions", TRUE, TRUE, FALSE, 0,
                                    None))
         /\ UNCHANGED now
    ELSE /\ answer' = Some(AnswerOf("refresh_questions", FALSE, TRUE, FALSE,
                                    0, Some("cannot read the sheet")))
         /\ UNCHANGED <<questions_cache, questions_last_fetch, questions_file,
                        now, cache_filled>>

-----------------------------------------------------------------------------
(* The specifications.                                                     *)

vars ==
    <<v_tree, v_result, request, sup_pc, safety, result, returned,
      join_expired, response, n_validate, n_threads, t_pc, steps,
      output_buffer, error_buffer, input_index, input_log, exc,
      api_keys_list, current_key_index, api_key_lock, caller, key_log,
      n_calls, sys_stdout, run, n_prints, safe_builtins, allowed_modules,
      env, import_log, n_execs, scores_file, writer, score_log, n_submits,
      questions_cache, questions_last_fetch, questions_file, now,
      cache_filled, answer>>

\* What the endpoints and the runner leave alone.
outside_endpoints ==
    <<v_tree, v_result, pool_vars, stdout_vars, env_vars, backup_vars,
      cache_vars>>

\* The server before a request: no handler, no thread.
EndpointInit ==
    /\ request = None
    /\ sup_pc = "idle"
    /\ safety = None
    /\ result = [output |-> "", error |-> None, timeout |-> FALSE]
    /\ returned = None
    /\ join_expired = FALSE
    /\ response = None
    /\ n_validate = 0
    /\ n_threads = 0
    /\ t_pc = "none"
    /\ steps = 0
    /\ output_buffer = ""
    /\ error_buffer = ""
    /\ input_index = 0
    /\ input_log = <<>>
    /\ exc = None

\* The validator before a source is given to it.
ValidatorIdle ==
    /\ v_tree = Module(<<>>)
    /\ v_result = None

\* Lines 79-81 and what load_api_keys made of the list: no thread is in
\* get_next_api_key or get_gemini_model_with_retry.
PoolInit ==
    /\ api_keys_list \in KeyLists
    /\ current_key_index = 0
    /\ api_key_lock = None
    /\ caller = [t \in Callers |-> IdleFrame]
    /\ key_log = <<>>
    /\ n_calls = 0

PoolIdle ==
    /\ PoolInit
    /\ api_keys_list = <<>>

\* sys.stdout names the console and no execution has started.
StdoutInit ==
    /\ sys_stdout = None
    /\ run = [r \in Runs |-> NoRun]
    /\ n_prints = 0

\* The tables as server.py defines them and no execution started.
EnvInit ==
    /\ safe_builtins = SAFE_BUILTINS
    /\ allowed_modules = ALLOWED_MODULES
    /\ env = [r \in Runs |-> NoEnv]
    /\ import_log = <<>>
    /\ n_execs = 0

\* scores_backup.json does not exist and no thread is writing a score.
BackupInit ==
    /\ scores_file = None
    /\ writer = [t \in Writers |-> IdleWriter]
    /\ score_log = <<>>
    /\ n_submits = 0

\* Lines 38-39: nothing is cached; questions.json is absent.
CacheInit ==
    /\ questions_cache = None
    /\ questions_last_fetch = None
    /\ questions_file = None
    /\ now = 0
    /\ cache_filled = 0
    /\ answer = None

Init ==
    /\ EndpointInit
    /\ ValidatorIdle
    /\ PoolIdle
    /\ StdoutInit
    /\ EnvInit
    /\ BackupInit
    /\ CacheInit

Next ==
    \/ \E req \in Requests : Receive(req) /\ UNCHANGED outside_endpoints
    \/ CheckRequest /\ UNCHANGED outside_endpoints
    \/ Validate /\ UNCHANGED outside_endpoints
    \/ StartThread /\ UNCHANGED outside_endpoints
    \/ Join /\ UNCHANGED outside_endpoints
    \/ IsAlive /\ UNCHANGED outside_endpoints
    \/ SetTimeout /\ UNCHANGED outside_endpoints
    \/ SetError /\ UNCHANGED outside_endpoints
    \/ Return /\ UNCHANGED outside_endpoints
    \/ ReadTimeout /\ UNCHANGED outside_endpoints
    \/ AnswerTimeout /\ UNCHANGED outside_endpoints
    \/ AnswerFinished /\ UNCHANGED outside_endpoints
    \/ validate_code /\ UNCHANGED outside_endpoints
    \/ (\E text \in Writes \cup ReadValues : ExecWrite(text))
            /\ UNCHANGED outside_endpoints
    \/ (\E text \in ErrWrites : ExecWriteErr(text))
            /\ UNCHANGED outside_endpoints
    \/ (\E prompt \in Prompts, caught \in BOOLEAN : safe_input(prompt, caught))
            /\ UNCHANGED outside_endpoints
    \/ (\E msg \in Raised : ExecRaise(msg)) /\ UNCHANGED outside_endpoints
    \/ ExecEnd /\ UNCHANGED outside_endpoints
    \/ Collect /\ UNCHANGED outside_endpoints
    \/ Except /\ UNCHANGED outside_endpoints
    \/ ThreadExit /\ UNCHANGED outside_endpoints

Spec == Init /\ [][Next]_vars

\* The validator on its own: validate_code_safety applied to every source
\* of Trees.
ValidatorInit ==
    /\ EndpointInit
    /\ PoolIdle
    /\ StdoutInit
    /\ v_tree \in Trees
    /\ v_result = None
    /\ EnvInit
    /\ BackupInit
    /\ CacheInit

RunValidator ==
    /\ v_result = None
    /\ v_result' = Some(validate_code_safety(v_tree))
    /\ UNCHANGED <<v_tree, request, sup_pc, safety, result, returned,
                   join_expired, response, n_validate, n_threads>>
    /\ UNCHANGED thread_vars
    /\ UNCHANGED <<pool_vars, stdout_vars, env_vars, backup_vars, cache_vars>>

ValidatorNext == RunValidator

SpecValidator == ValidatorInit /\ [][ValidatorNext]_vars

\* The credential pool on its own: the threads of Callers call
\* get_next_api_key and get_gemini_model_with_retry side by side.
outside_pool ==
    <<v_tree, v_result, supervisor_vars, result, thread_vars, stdout_vars,
      env_vars, backup_vars, cache_vars>>

PoolSpecInit ==
    /\ EndpointInit
    /\ ValidatorIdle
    /\ StdoutInit
    /\ PoolInit
    /\ EnvInit
    /\ BackupInit
    /\ CacheInit

PoolNext ==
    \/ \E t \in Callers : CallGetNextApiKey(t) /\ UNCHANGED outside_pool
    \/ \E t \in Callers, max_retries \in RetryArgs :
            CallWithRetry(t, max_retries) /\ UNCHANGED outside_pool
    \/ \E t \in Callers : RetryCheck(t) /\ UNCHANGED outside_pool
    \/ \E t \in Callers : Loop(t) /\ UNCHANGED outside_pool
    \/ \E t \in Callers : GkCheck(t) /\ UNCHANGED outside_pool
    \/ \E t \in Callers : AcquireLock(t) /\ UNCHANGED outside_pool
    \/ \E t \in Callers : ReadKey(t) /\ UNCHANGED outside_pool
    \/ \E t \in Callers : AdvanceIndex(t) /\ UNCHANGED outside_pool
    \/ \E t \in Callers : ReleaseLock(t) /\ UNCHANGED outside_pool
    \/ \E t \in Callers, ok \in BOOLEAN : Probe(t, ok) /\ UNCHANGED outside_pool

SpecPool == PoolSpecInit /\ [][PoolNext]_vars

\* Executions side by side, with the other threads of the server.
outside_stdout ==
    <<v_tree, v_result, supervisor_vars, result, thread_vars, pool_vars,
      env_vars, backup_vars, cache_vars>>

StdoutSpecInit ==
    /\ EndpointInit
    /\ ValidatorIdle
    /\ PoolIdle
    /\ StdoutInit
    /\ EnvInit
    /\ BackupInit
    /\ CacheInit

StdoutNext ==
    \/ \E r \in Runs : StartRun(r) /\ UNCHANGED outside_stdout
    \/ \E r \in Runs : EnterSave(r) /\ UNCHANGED outside_stdout
    \/ \E r \in Runs : EnterSet(r) /\ UNCHANGED outside_stdout
    \/ \E r \in Runs : RunPrint(r) /\ UNCHANGED outside_stdout
    \/ \E r \in Runs : RunEnd(r) /\ UNCHANGED outside_stdout
    \/ \E r \in Runs : ExitRestore(r) /\ UNCHANGED outside_stdout
    \/ \E r \in Runs : CollectRun(r) /\ UNCHANGED outside_stdout
    \/ ServerPrint /\ UNCHANGED outside_stdout

SpecStdout == StdoutSpecInit /\ [][StdoutNext]_vars

\* The restricted environment on its own: executions of the sources of
\* EnvSources, one after another and side by side.
outside_env ==
    <<v_tree, v_result, supervisor_vars, result, thread_vars, pool_vars,
      stdout_vars, backup_vars, cache_vars>>

EnvNext ==
    \/ \E r \in Runs, source \in EnvSources,
          inputs \in {<<>>, <<"hi">>, <<"yo", "hi">>} :
            StartExecution(r, source, inputs) /\ UNCHANGED outside_env
    \/ \E r \in Runs : BuildNamespace(r) /\ UNCHANGED outside_env
    \/ \E r \in Runs : ExecImport(r) /\ UNCHANGED outside_env
    \/ \E r \in Runs : ExecCall(r) /\ UNCHANGED outside_env

SpecEnv == Init /\ [][EnvNext]_vars

\* The score backup on its own: the request threads call
\* write_score_via_webapp side by side.
outside_backup ==
    <<v_tree, v_result, supervisor_vars, result, thread_vars, pool_vars,
      stdout_vars, env_vars, cache_vars>>

BackupNext ==
    \/ \E t \in Writers, pair \in Pairs, score \in 1..MaxScore :
            CallWrite(t, pair[1], pair[2], score) /\ UNCHANGED outside_backup
    \/ \E t \in Writers : ReadBackup(t) /\ UNCHANGED outside_backup
    \/ \E t \in Writers : UpdateRecords(t) /\ UNCHANGED outside_backup
    \/ \E t \in Writers : WriteBackup(t) /\ UNCHANGED outside_backup

SpecBackup == Init /\ [][BackupNext]_vars

\* The same calls executed one after another.
BackupSeqNext ==
    \/ \E t \in Writers, pair \in Pairs, score \in 1..MaxScore :
            /\ \A o \in Writers \ {t} : writer[o].pc \in {"idle", "returned"}
            /\ CallWrite(t, pair[1], pair[2], score)
            /\ UNCHANGED outside_backup
    \/ \E t \in Writers : ReadBackup(t) /\ UNCHANGED outside_backup
    \/ \E t \in Writers : UpdateRecords(t) /\ UNCHANGED outside_backup
    \/ \E t \in Writers : WriteBackup(t) /\ UNCHANGED outside_backup

SpecBackupSeq == Init /\ [][BackupSeqNext]_vars

\* The question cache on its own: the three endpoints called one after
\* another while time passes; questions.json is there or not at startup.
outside_cache ==
    <<v_tree, v_result, supervisor_vars, result, thread_vars, pool_vars,
      stdout_vars, env_vars, backup_vars>>

CacheSpecInit ==
    /\ EndpointInit
    /\ ValidatorIdle
    /\ PoolIdle
    /\ StdoutInit
    /\ EnvInit
    /\ BackupInit
    /\ questions_cache = None
    /\ questions_last_fetch = None
    /\ questions_file \in {None, Some(<<[id |-> "1"]>>)}
    /\ now = 0
    /\ cache_filled = 0
    /\ answer = None

CacheNext ==
    \/ Tick /\ UNCHANGED outside_cache
    \/ \E questions \in Fetched :
            get_questions(questions) /\ UNCHANGED outside_cache
    \/ \E question_id \in {"1", "2"}, questions \in Fetched :
            get_question_by_id(question_id, questions)
                /\ UNCHANGED outside_cache
    \/ \E questions \in Fetched :
            refresh_questions(questions) /\ UNCHANGED outside_cache

SpecCache == CacheSpecInit /\ [][CacheNext]_vars

-----------------------------------------------------------------------------
(* The vocabulary of the claims.                                           *)

\* Every node of a tree.
RECURSIVE NodesOf(_)
NodesOf(node) ==
    {node} \cup UNION {NodesOf(node.kids[i]) : i \in 1..Len(node.kids)}

\* An import that names a module outside the allowlist.
NamesOutsideModule(node) ==
    /\ node.kind \in {"Import", "ImportFrom"}
    /\ \E i \in 1..Len(node.names) : node.names[i] \notin ALLOWED_MODULES

\* The same, or a relative import that names no module (from . import x).
ImportsOutside(node) ==
    \/ NamesOutsideModule(node)
    \/ node.kind = "ImportFrom" /\ node.names = <<>>

\* A node of one of the four kinds the validation policy forbids.
Forbidden(node) ==
    \/ NamesOutsideModule(node)
    \/ node.kind \in {"Global", "Nonlocal"}
    \/ /\ node.kind = "Call"
       /\ node.kids[1].kind = "Name"
       /\ node.kids[1].names[1] \in DANGEROUS_FUNCTIONS
    \/ /\ node.kind = "Attribute"
       /\ node.names[1] \in {"__globals__", "__locals__", "__builtins__",
                            "__file__", "__name__"}

\* The nodes of a tree in pre-order, depth first: a node, then each of its
\* children's subtrees in turn.
RECURSIVE PreOrder(_)
PreOrder(node) ==
    LET RECURSIVE Each(_)
        Each(kids) == IF kids = <<>> THEN <<>>
                      ELSE PreOrder(Head(kids)) \o Each(Tail(kids))
    IN  <<node>> \o Each(node.kids)

\* The nodes of a tree level by level (breadth first): the root, then the
\* root's children, then their children, each level from left to right.
RECURSIVE LevelsFrom(_)
LevelsFrom(level) ==
    LET RECURSIVE KidsOf(_)
        KidsOf(nodes) == IF nodes = <<>> THEN <<>>
                         ELSE Head(nodes).kids \o KidsOf(Tail(nodes))
    IN  IF level = <<>> THEN <<>> ELSE level \o LevelsFrom(KidsOf(level))

LevelOrder(node) == LevelsFrom(<<node>>)

\* The reason the validator gives for a node taken alone, <<>> if it passes.
ReasonOf(node) ==
    IF NamesOutsideModule(node) /\ node.kind = "Import"
    THEN Some(MsgImport(node.names[
             CHOOSE i \in 1..Len(node.names) :
                 /\ node.names[i] \notin ALLOWED_MODULES
                 /\ \A j \in 1..(i - 1) : node.names[j] \in ALLOWED_MODULES]))
    ELSE IF NamesOutsideModule(node) THEN Some(MsgImport(node.names[1]))
    ELSE IF node.kind \in {"Global", "Nonlocal"} THEN Some(MsgNode(node.kind))
    ELSE IF Forbidden(node) /\ node.kind = "Call"
    THEN Some(MsgFunction(node.kids[1].names[1]))
    ELSE IF Forbidden(node) THEN Some(MsgAttribute(node.names[1]))
    ELSE None

\* The reason of the first node of a sequence that does not pass.
RECURSIVE FirstReason(_)
FirstReason(nodes) ==
    IF nodes = <<>> THEN None
    ELSE IF ReasonOf(Head(nodes)) # None THEN ReasonOf(Head(nodes))
    ELSE FirstReason(Tail(nodes))

\* A call whose callee is a bare name of DANGEROUS_FUNCTIONS.
BannedCall(node) ==
    /\ node.kind = "Call"
    /\ node.kids[1].kind = "Name"
    /\ node.kids[1].names[1] \in DANGEROUS_FUNCTIONS

\* An attribute access with one of the five banned names.
BannedAttribute(node) ==
    /\ node.kind = "Attribute"
    /\ node.names[1] \in {"__globals__", "__locals__", "__builtins__",
                         "__file__", "__name__"}

Handling == request # None
Executing == Handling /\ request[1].endpoint = "execute"
Answered == response # None
ThreadFinished == t_pc \in {"exit", "dead"}

-----------------------------------------------------------------------------
(* The claims.                                                             *)

\* C1: on the execution endpoint a thread is started only after
\* validate_code_safety has returned is_safe = True for the request's code:
\* a request whose verdict is False, or that is turned down before
\* validation, starts no thread, and an accepted request starts exactly one.
C1_ExecutionOnlyAfterSafeVerdict ==
    /\ n_threads <= 1
    /\ n_threads = 1 =>
          /\ Executing
          /\ n_validate = 1
          /\ safety # None /\ safety[1].is_safe
          /\ RequestError(request[1]) = None
    /\ (safety # None /\ ~safety[1].is_safe) => n_threads = 0
    /\ (Answered /\ n_validate = 0) => n_threads = 0
    /\ (Executing /\ safety # None /\ safety[1].is_safe
            /\ sup_pc \notin {"validate", "execute"}) => n_threads = 1

\* An accepted request has been run by its one thread and answered.
C1_Witness ==
    /\ Answered /\ response[1].success
    /\ n_threads = 1 /\ n_validate = 1

\* C2: a source with an import, of any form and at any depth, of a module
\* that is not in ALLOWED_MODULES is refused by validate_code_safety with a
\* reason that names the module, and the execution endpoint starts no
\* thread for it.
C2_OutsideImportIsRefused ==
    (Executing /\ request[1].code.tree # SyntaxError
        /\ \E n \in NodesOf(request[1].code.tree) : ImportsOutside(n))
    => /\ n_threads = 0
       /\ safety # None =>
             /\ ~safety[1].is_safe
             /\ \E n \in NodesOf(request[1].code.tree) :
                    /\ ImportsOutside(n)
                    /\ \E i \in 1..Len(n.names) :
                           safety[1].error = Some(MsgImport(n.names[i]))

\* C3: with k supplied inputs the i-th call of the simulated input returns
\* inputs[i-1] for i <= k, and the (k+1)-th call and every later one raises
\* EOFError, whatever the prompts and whether or not an earlier EOFError was
\* caught.
C3_InputsInOrderThenEOF ==
    t_pc # "none" =>
        \A i \in 1..Len(input_log) :
            IF i <= Len(request[1].inputs.val)
            THEN input_log[i] = Some(request[1].inputs.val[i].val)
            ELSE input_log[i] = None

\* One input is supplied; the first call returns it, the second raises and
\* is caught, the third raises again.
C3_Witness ==
    /\ t_pc # "none"
    /\ Len(request[1].inputs.val) = 1
    /\ input_log = <<Some("hi"), None, None>>

\* C4: when the thread is still running as the bounded wait expires, the
\* result has timeout = True and the error answered with success:false is
\* the message naming the timeout, under every interleaving with the
\* abandoned thread.  Stated for the runs in which the thread was still
\* alive at line 398 (is_alive) as well, so for fewer runs than the claim.
C4_TimeoutAnswerIsTimeoutMessage ==
    (join_expired /\ result.timeout) =>
        /\ returned # None => returned[1].timeout
        /\ Answered =>
              response[1] = Failure(Some(MsgTimeout(EXECUTION_TIMEOUT)))

\* C5: for a run that ends without error and with nothing on standard
\* error, captured output longer than MAX_OUTPUT_LENGTH is returned as its
\* first MAX_OUTPUT_LENGTH characters plus the truncation marker, and
\* non-empty output of at most MAX_OUTPUT_LENGTH characters is returned
\* unchanged.
C5_OutputCappedOrUnchanged ==
    (ThreadFinished /\ exc = None /\ error_buffer = "" /\ output_buffer # "")
    => LET expected ==
               IF Len(output_buffer) > 10000
               THEN SubSeq(output_buffer, 1, 10000) \o "\n...(output truncated)"
               ELSE output_buffer
       IN  /\ result.output = expected
           /\ (returned # None /\ ~returned[1].timeout) =>
                 returned[1].output = expected
           /\ (Answered /\ ~result.timeout) =>
                 response[1] = Success(expected)

\* A run that wrote more than the cap has been answered with the capped text.
C5_Witness ==
    /\ ThreadFinished /\ exc = None /\ error_buffer = ""
    /\ Len(output_buffer) > MAX_OUTPUT_LENGTH
    /\ Answered /\ response[1].success
    /\ Len(response[1].output[1]) = MAX_OUTPUT_LENGTH + Len(TruncationMarker)

\* C6: every result execute_with_timeout returns shows exactly one of:
\* normal (timeout False, error None, output non-empty), failed (timeout
\* False, error set, output empty), timed out (timeout True, and neither a
\* normal output nor the absence of an error beside it).
C6_ExactlyOneOutcome ==
    returned # None =>
        LET r == returned[1]
            normal   == ~r.timeout /\ r.error = None /\ r.output # ""
            failed   == ~r.timeout /\ r.error # None /\ r.output = ""
            timedout == r.timeout /\ r.output = ""
        IN  /\ normal \/ failed \/ timedout
            /\ ~(normal /\ failed) /\ ~(normal /\ timedout)
            /\ ~(failed /\ timedout)

\* C7: a run whose source raised an unhandled exception before the timeout
\* (the thread had ended when the wait came back) is answered success:false
\* with an error, whatever str(e) is.
C7_RaisedRunAnswersFailure ==
    (Executing /\ Answered /\ exc # None /\ ~join_expired /\ returned # None
        /\ ~returned[1].timeout)
    => /\ ~response[1].success
       /\ response[1].error # None

\* C8: on the execution endpoint a request with code longer than 50,000
\* characters, with more than 100 inputs, with an input that is no string
\* or is longer than 1,000 characters, or with inputs that is no list, is
\* answered success:false with an error and reaches neither the validator
\* nor the runner; a request exactly at the three bounds is not turned down
\* by these checks.
C8_LimitsBeforeValidation ==
    (Executing /\ request[1].json /\ sup_pc # "check") =>
        LET req == request[1]
            items == req.inputs.val
            over ==
                \/ req.code.len > 50000
                \/ req.inputs.type # "list"
                \/ Len(items) > 100
                \/ \E i \in 1..Len(items) :
                       items[i].type # "str" \/ Len(items[i].val) > 1000
            within ==
                /\ req.code.len \in 1..50000
                /\ req.inputs.type = "list"
                /\ Len(items) <= 100
                /\ \A i \in 1..Len(items) :
                       items[i].type = "str" /\ Len(items[i].val) <= 1000
        IN  /\ over => /\ Answered
                       /\ ~response[1].success /\ response[1].error # None
                       /\ n_validate = 0 /\ n_threads = 0
            /\ within => IF sup_pc = "validate" THEN ~Answered
                         ELSE n_validate = 1

\* A request with 101 inputs has been turned down before validation.
C8_Witness ==
    /\ Executing /\ request[1].json
    /\ request[1].code.len = MAX_CODE_LENGTH
    /\ request[1].inputs.type = "list"
    /\ Len(request[1].inputs.val) = MAX_INPUTS + 1
    /\ response = Some(Failure(Some(MsgTooManyInputs)))
    /\ n_validate = 0

\* C9: on the validation endpoint a request with code longer than 50,000
\* characters is turned down with an error and validate_code_safety is not
\* called for it.
C9_ValidateEndpointLimitsCode ==
    (Handling /\ request[1].endpoint = "validate" /\ request[1].json
        /\ request[1].code.len > 50000 /\ Answered)
    => /\ ~response[1].success
       /\ response[1].error # None
       /\ n_validate = 0

\* C10: a source that parses and holds no import naming a module outside
\* ALLOWED_MODULES, no Global or Nonlocal, no call of a bare name of
\* DANGEROUS_FUNCTIONS and no banned attribute is answered (True, None); and
\* False is answered only for a source with such a node or one that does not
\* parse.  (A relative import that names no module is not counted as such a
\* node here; counting it leaves a weaker statement.)
C10_SafeIffNothingForbidden ==
    v_result # None =>
        LET forbidden == \E n \in NodesOf(v_tree) : Forbidden(n)
        IN  /\ (v_tree # SyntaxError /\ ~forbidden) =>
                  v_result[1] = [is_safe |-> TRUE, error |-> None]
            /\ ~v_result[1].is_safe => (v_tree = SyntaxError \/ forbidden)

\* A source with an allowed import and a method call named like a banned
\* function has been validated and passed.
C10_Witness ==
    /\ v_tree = Module(<<Import(<<"math">>),
                         Expr(Call(Attribute(Name("x"), "open"), <<>>))>>)
    /\ v_result = Some([is_safe |-> TRUE, error |-> None])

\* C11: a successful call of the simulated input appends the prompt (when
\* it is not empty) and then the value it returns to the captured output at
\* the moment of the call, a call that raises EOFError appends nothing, and
\* no step of the running source alters what was captured before it: the
\* captured output is the concatenation, in program order, of the prints
\* and of the reads' echoes.
C11_EchoAppendedAtCall ==
    [][t_pc = "running" =>
        /\ Len(output_buffer') >= Len(output_buffer)
        /\ SubSeq(output_buffer', 1, Len(output_buffer)) = output_buffer
        /\ input_index' = input_index + 1 =>
              LET value == request[1].inputs.val[input_index'].val
              IN  /\ input_log' = Append(input_log, Some(value))
                  /\ \E prompt \in {"", "? "} :
                         output_buffer' = output_buffer \o prompt \o value \o "\n"
        /\ (input_log' # input_log /\ input_index' = input_index) =>
              output_buffer' = output_buffer]_vars

\* A source that reads with a prompt and prints what it read, given the
\* inputs ["hi"], has been answered: the prompt, the echo, the print.
C11_Witness ==
    /\ Executing /\ Len(request[1].inputs.val) = 1
    /\ input_log = <<Some("hi")>>
    /\ output_buffer = "? hi\nhi\n"
    /\ response = Some(Success("? hi\nhi\n"))

\* C12: when the thread has finished before the timeout without raising
\* and nothing was captured on standard output or standard error, the
\* result's output is the no-output sentinel and not the empty string, its
\* error is None, and the endpoint answers success:true with the sentinel
\* as output.
C12_EmptyRunGivesSentinel ==
    (ThreadFinished /\ exc = None /\ output_buffer = "" /\ error_buffer = "")
    => /\ result.output = "(program ran successfully, no output)"
       /\ result.output # ""
       /\ (t_pc = "dead" /\ ~join_expired) =>
             /\ result.error = None /\ ~result.timeout
             /\ returned # None => returned[1] = result
             /\ Answered => response[1] = Success(result.output)

\* A source that wrote nothing has ended in time and has been answered.
C12_Witness ==
    /\ t_pc = "dead" /\ ~join_expired /\ exc = None
    /\ output_buffer = "" /\ error_buffer = ""
    /\ response = Some(Success(NoOutput))

\* C16: once execute_with_timeout has returned a result, none of its
\* fields output, error and timeout changes any more: the result is at every
\* later moment what it was at the return, also when the thread was
\* abandoned at the timeout and finishes or raises later.
C16_ReturnedResultIsFinal ==
    returned # None => result = returned[1]

\* C17: for a run that finishes before the timeout the cap applies to
\* captured standard output followed by captured standard error: when the
\* two together are longer than 10,000 characters the output is the first
\* 10,000 characters of the combination plus the truncation marker, and an
\* output never holds more than 10,000 captured characters.
C17_CapOnCombinedText ==
    (t_pc = "dead" /\ ~join_expired /\ exc = None /\ returned # None)
    => LET combined == output_buffer \o error_buffer
           marker == "\n...(output truncated)"
       IN  /\ Len(combined) > 10000 =>
                 returned[1].output = SubSeq(combined, 1, 10000) \o marker
           /\ Len(returned[1].output) <= 10000 + Len(marker)

\* C18 (as claimed): the reason validate_code_safety returns is that of the
\* first violating node in a pre-order depth-first traversal of the tree, so
\* a violation nested inside an earlier statement is reported in preference
\* to one in a later top-level statement.
C18_FirstInPreOrder ==
    (v_result # None /\ v_tree # SyntaxError) =>
        v_result[1].error = FirstReason(PreOrder(v_tree))

\* C18 (amended): the reason validate_code_safety returns is that of the
\* first violating node in a breadth-first (level by level) traversal of the
\* tree, so a violation in a later top-level statement is reported in
\* preference to one nested deeper inside an earlier statement; the verdict
\* is False exactly when there is such a node.
C18_FirstInLevelOrder ==
    (v_result # None /\ v_tree # SyntaxError) =>
        /\ v_result[1].error = FirstReason(LevelOrder(v_tree))
        /\ v_result[1].is_safe = (FirstReason(LevelOrder(v_tree)) = None)

\* A source with global inside a function and, after it, an import of os:
\* the import is the reason returned.
C18_Witness ==
    /\ v_tree = Module(<<FunctionDef(<<Global(<<"g">>)>>), Import(<<"os">>)>>)
    /\ v_result = Some([is_safe |-> FALSE, error |-> Some(MsgImport("os"))])

\* C19: a source that parses and holds a call whose callee is a bare name
\* of DANGEROUS_FUNCTIONS, at any depth and in any position, is answered
\* False; and when such calls are its only violations the reason names the
\* function of one of them.
C19_BannedCallIsRefused ==
    (v_result # None /\ v_tree # SyntaxError) =>
        LET calls == {n \in NodesOf(v_tree) : BannedCall(n)}
            others == {n \in NodesOf(v_tree) : Forbidden(n) /\ ~BannedCall(n)}
        IN  calls # {} =>
                /\ ~v_result[1].is_safe
                /\ others = {} =>
                      \E n \in calls :
                          v_result[1].error =
                              Some("function not allowed: " \o n.kids[1].names[1])

\* A source whose only violation is a call of open as a decorator has been
\* refused with open as the reason.
C19_Witness ==
    /\ v_tree = Module(<<FunctionDefWith(<<>>, <<PrintX>>,
                                         <<Call(Name("open"), <<>>)>>)>>)
    /\ v_result = Some([is_safe |-> FALSE,
                        error |-> Some(MsgFunction("open"))])

\* C20: a source that parses and holds an attribute access named
\* __globals__, __locals__, __builtins__, __file__ or __name__, wherever it
\* stands, is answered False; and when such accesses are its only
\* violations the reason names the attribute of one of them.
C20_BannedAttributeIsRefused ==
    (v_result # None /\ v_tree # SyntaxError) =>
        LET accesses == {n \in NodesOf(v_tree) : BannedAttribute(n)}
            others == {n \in NodesOf(v_tree) :
                          Forbidden(n) /\ ~BannedAttribute(n)}
        IN  accesses # {} =>
                /\ ~v_result[1].is_safe
                /\ others = {} =>
                      \E n \in accesses :
                          v_result[1].error =
                              Some("attribute not allowed: " \o n.names[1])

\* A source whose only violation is an assignment to x.__file__ has been
\* refused with __file__ as the reason.
C20_Witness ==
    /\ v_tree = Module(<<PrintX,
                         Assign(<<Attribute(Name("x"), "__file__")>>, Name("x"))>>)
    /\ v_result = Some([is_safe |-> FALSE,
                        error |-> Some(MsgAttribute("__file__"))])

\* C13: with a non-empty list of N distinct credentials and threads
\* calling get_next_api_key side by side, current_key_index stays in
\* 0..N-1, every call advances it by exactly one modulo N (the index is the
\* number of completed advances modulo N, at most one advance being under
\* way), the keys read, in the order the lock was taken, are keys[0],
\* keys[1 mod N], keys[2 mod N], ..., and any N consecutive ones are the N
\* credentials, each once.
C13_RoundRobinUnderLock ==
    api_keys_list # <<>> =>
        LET N == Len(api_keys_list)
            advancing == {t \in Callers : caller[t].pc = "gk_advance"}
        IN  /\ current_key_index \in 0..(N - 1)
            /\ Cardinality(advancing) <= 1
            /\ current_key_index = (Len(key_log) - Cardinality(advancing)) % N
            /\ \A i \in 1..Len(key_log) :
                   key_log[i] = api_keys_list[((i - 1) % N) + 1]
            /\ \A i \in 1..(Len(key_log) - N + 1) :
                   {key_log[j] : j \in i..(i + N - 1)}
                       = {api_keys_list[k] : k \in 1..N}

\* With two keys, three keys have been handed out, the third to a thread
\* that holds the lock while the other thread waits for it.
C13_Witness ==
    /\ api_keys_list = <<"k1", "k2">>
    /\ key_log = <<"k1", "k2", "k1">>
    /\ api_key_lock = Some("t2")
    /\ caller["t2"].pc = "gk_advance"
    /\ caller["t1"].pc = "gk_lock"

\* C14: one call of get_gemini_model_with_retry(max_retries), with
\* max_retries at most the number of keys, obtains at most max_retries
\* keys, pairwise distinct and consecutive in the list (wrapping), returns
\* the model of the first key whose probe succeeds and returns None only
\* after max_retries failed probes, whatever the other threads do meanwhile.
C14_RetryTriesDistinctKeys ==
    \A t \in Callers :
        LET frame == caller[t]
            N == Len(api_keys_list)
            tried == frame.tried
            Position(key) == CHOOSE k \in 1..N : api_keys_list[k] = key
        IN  (frame.in_retry /\ N > 0 /\ frame.max_retries <= N) =>
                /\ Len(tried) <= frame.max_retries
                /\ \A i, j \in 1..Len(tried) : i # j => tried[i] # tried[j]
                /\ \A i \in 1..(Len(tried) - 1) :
                       Position(tried[i + 1]) = (Position(tried[i]) % N) + 1
                /\ (frame.done /\ frame.value # None) =>
                       /\ frame.value = Some(tried[Len(tried)])
                       /\ \A i \in 1..Len(frame.probes) :
                              frame.probes[i] = (i = Len(frame.probes))
                /\ (frame.done /\ frame.value = None) =>
                       /\ Len(frame.probes) = frame.max_retries
                       /\ \A i \in 1..Len(frame.probes) : ~frame.probes[i]

\* C15: when executions run side by side, the output stored for each is
\* made of exactly what its own source wrote (prints and input echoes):
\* nothing written by another execution or by another thread of the server
\* is in it and nothing of its own is missing.
C15_OutputIsOwnText ==
    \A r \in Runs :
        run[r].output # None =>
            run[r].output[1] =
                (IF run[r].written = ""
                 THEN "(program ran successfully, no output)"
                 ELSE run[r].written)

\* C21: a source that parses and holds a global or nonlocal statement, at
\* any depth, is answered False; and when such statements are its only
\* violations the reason names the kind (Global or Nonlocal) of one of them.
C21_ScopeStatementIsRefused ==
    (v_result # None /\ v_tree # SyntaxError) =>
        LET scoped == {n \in NodesOf(v_tree) : n.kind \in {"Global", "Nonlocal"}}
            others == {n \in NodesOf(v_tree) :
                          Forbidden(n) /\ n.kind \notin {"Global", "Nonlocal"}}
        IN  scoped # {} =>
                /\ ~v_result[1].is_safe
                /\ others = {} =>
                      \E n \in scoped :
                          v_result[1].error = Some("not allowed: " \o n.kind)

\* A source whose only violation is nonlocal inside a function has been
\* refused with Nonlocal as the reason.
C21_Witness ==
    /\ v_tree = Module(<<PrintX, FunctionDef(<<Nonlocal(<<"g">>)>>)>>)
    /\ v_result = Some([is_safe |-> FALSE, error |-> Some(MsgNode("Nonlocal"))])

\* C24: within one execution the input cursor starts at 0, goes up by
\* exactly 1 on each successful call of the simulated input and never goes
\* down, and stays between 0 and len(inputs); a call that raises EOFError
\* leaves the cursor where it was and appends nothing to the captured
\* output.
C24_CursorFrame ==
    /\ [](t_pc # "none" =>
            /\ 0 <= input_index
            /\ input_index <= Len(request[1].inputs.val)
            /\ input_index =
                   Cardinality({i \in 1..Len(input_log) : input_log[i] # None}))
    /\ [][/\ (t_pc = "none" /\ t_pc' # "none") => input_index' = 0
          /\ t_pc # "none" =>
                /\ input_index' \in {input_index, input_index + 1}
                /\ (Len(input_log') = Len(input_log) + 1
                        /\ input_log'[Len(input_log')] # None)
                     => input_index' = input_index + 1
                /\ (Len(input_log') = Len(input_log) + 1
                        /\ input_log'[Len(input_log')] = None)
                     => /\ input_index' = input_index
                        /\ output_buffer' = output_buffer]_vars

\* With one input supplied, a first call has returned it and a second has
\* raised: the cursor is 1 and the output holds the one echo.
C24_Witness ==
    /\ t_pc = "running"
    /\ Len(request[1].inputs.val) = 1
    /\ input_log = <<Some("hi"), None>>
    /\ input_index = 1
    /\ output_buffer = "hi\n"

\* C27: once every execution thread that was started has left its
\* redirection block, sys.stdout names again the stream that was in place
\* before any execution started, and not the buffer of a finished
\* execution, whatever the order in which the executions entered and left.
C27_StdoutRestored ==
    (\A r \in Runs : run[r].pc \in {"none", "collect", "done"})
        => sys_stdout = None

\* An execution whose namespace has been built.
Built(r) == env[r].pc \in {"exec", "done", "failed"}

\* A call of input by its bare name.
CallsInput(node) ==
    /\ node.kind = "Call"
    /\ node.kids[1] = Name("input")

\* C22: every import request of an execution goes through safe_import: the
\* real import mechanism is called only for names of ALLOWED_MODULES, and an
\* execution never gets past an import statement that names no permitted
\* module: it ends as failed there, with the import-denied error.
C22_RealImportOnlyForAllowed ==
    /\ \A i \in 1..Len(import_log) : import_log[i] \in ALLOWED_MODULES
    /\ \A r \in Runs :
          Built(r) =>
              \A i \in 1..Len(env[r].source) :
                  ImportsOutside(env[r].source[i]) =>
                      /\ env[r].ip <= i
                      /\ env[r].pc = "done" => FALSE
                      /\ (env[r].pc = "failed" /\ env[r].ip = i) =>
                            \E name \in {""} \cup
                                    {env[r].source[i].names[k] :
                                        k \in 1..Len(env[r].source[i].names)} :
                                env[r].error = Some(MsgImport(name))

\* C23: a source that calls input by its bare name, and does nothing the
\* validator refuses, passes validate_code_safety; in its execution input
\* names the simulated input made for that execution, and every call of it
\* returns from the supplied inputs, never from the console.
C23_InputIsSimulated ==
    \A r \in Runs :
        LET nodes == NodesOf(Module(env[r].source))
        IN  ((\E n \in nodes : CallsInput(n))
                /\ (\A n \in nodes : Forbidden(n) => CallsInput(n))) =>
                /\ env[r].pc # "refused"
                /\ validate_code_safety(Module(env[r].source)).is_safe
                /\ Built(r) =>
                      /\ env[r].builtins["input"] = Function("safe_input", r)
                      /\ \A i \in 1..Len(env[r].reads) :
                            /\ env[r].reads[i] # NativeRead
                            /\ i <= Len(env[r].inputs)
                            /\ env[r].reads[i] = env[r].inputs[i]

C23_Witness ==
    \E r \in Runs :
        /\ env[r].source = ReadAndPrint
        /\ env[r].inputs = <<"hi">>
        /\ env[r].pc = "done"
        /\ env[r].reads = <<"hi">>

\* C25: each execution owns a fresh input cursor: what an execution has read
\* is the beginning of its own inputs (its first call returns inputs[0]) and
\* its cursor counts its own reads, whatever executions ran before it or run
\* beside it; a cursor moves only when its execution is built (to 0) or when
\* its own execution reads (by one), and then no other cursor moves.
C25_FreshCursor ==
    /\ [](\A r \in Runs :
            Built(r) =>
                /\ env[r].cursor = Len(env[r].reads)
                /\ env[r].cursor <= Len(env[r].inputs)
                /\ env[r].reads = SubSeq(env[r].inputs, 1, env[r].cursor))
    /\ [][\A r \in Runs :
            env'[r].cursor # env[r].cursor =>
                \/ env[r].pc = "build" /\ env'[r].cursor = 0
                \/ /\ env[r].pc = "exec"
                   /\ env'[r].cursor = env[r].cursor + 1
                   /\ env'[r].reads =
                        Append(env[r].reads, env[r].inputs[env[r].cursor + 1])
                   /\ \A o \in Runs \ {r} : env'[o] = env[o]]_vars

C25_Witness ==
    /\ n_execs = MaxExecs
    /\ env["r1"].pc = "done" /\ env["r1"].reads = <<"yo", "hi">>
    /\ env["r2"].pc = "done" /\ env["r2"].reads = <<"hi">>

\* C26: building and running the restricted environment never changes the
\* tables of the process: SAFE_BUILTINS has the keys and values of startup
\* (its __import__ is the interpreter's, it has no input) and
\* ALLOWED_MODULES is unchanged; the namespace of each execution has exactly
\* the names of SAFE_BUILTINS and input, with __import__ naming safe_import,
\* and no name of DANGEROUS_FUNCTIONS.
C26_TablesUnchanged ==
    /\ safe_builtins = SAFE_BUILTINS
    /\ safe_builtins["__import__"] = Builtin("__import__")
    /\ "input" \notin DOMAIN safe_builtins
    /\ allowed_modules = ALLOWED_MODULES
    /\ \A r \in Runs :
          Built(r) =>
              /\ DOMAIN env[r].builtins = DOMAIN SAFE_BUILTINS \cup {"input"}
              /\ env[r].builtins["__import__"] = Function("safe_import", "")
              /\ DOMAIN env[r].builtins \cap DANGEROUS_FUNCTIONS = {}

\* The records of the backup file ([] when the file is absent).
BackupRecords == IF scores_file = None THEN <<>> ELSE scores_file[1]

\* The records of the backup, and the submissions, of a pair.
RecordsOf(pair) ==
    {i \in 1..Len(BackupRecords) :
        /\ BackupRecords[i].student_name = pair[1]
        /\ BackupRecords[i].question_id = pair[2]}
SubmissionsOf(pair) ==
    {i \in 1..Len(score_log) :
        /\ score_log[i].student_name = pair[1]
        /\ score_log[i].question_id = pair[2]}

\* The first submission of the highest score of a pair.
BestOf(pair) ==
    CHOOSE i \in SubmissionsOf(pair) :
        \A j \in SubmissionsOf(pair) :
            \/ score_log[j].score < score_log[i].score
            \/ score_log[j].score = score_log[i].score /\ i <= j

\* C28: after any sequence of write_score_via_webapp calls executed one after
\* another, the backup holds at most one record per (student_name,
\* question_id) pair, and that record is the first submission of the highest
\* score of the pair: a later lower or equal score changed none of its
\* fields.
C28_BackupKeepsHighest ==
    (\A t \in Writers : writer[t].pc \in {"idle", "returned"}) =>
        \A pair \in Pairs :
            /\ Cardinality(RecordsOf(pair)) <= 1
            /\ SubmissionsOf(pair) # {} =>
                  \E i \in RecordsOf(pair) :
                      BackupRecords[i] = score_log[BestOf(pair)]

C28_Witness ==
    /\ \A t \in Writers : writer[t].pc \in {"idle", "returned"}
    /\ Len(score_log) = 3
    /\ \A i \in 1..3 : score_log[i].student_name = "amy"
                       /\ score_log[i].question_id = "2"
    /\ score_log[1].score = 1 /\ score_log[2].score = 2
    /\ score_log[3].score = 2
    /\ BackupRecords = <<score_log[2]>>

\* C29: when two submissions for different pairs are processed side by side
\* and both calls of write_score_via_webapp have returned True, the backup
\* holds a record for each of the two pairs.
C29_NoSubmissionLost ==
    \A t1, t2 \in Writers :
        (/\ t1 # t2
         /\ writer[t1].pc = "returned" /\ writer[t1].ret = Some(TRUE)
         /\ writer[t2].pc = "returned" /\ writer[t2].ret = Some(TRUE)
         /\ <<writer[t1].student_name, writer[t1].question_id>> #
                <<writer[t2].student_name, writer[t2].question_id>>) =>
            /\ RecordsOf(<<writer[t1].student_name, writer[t1].question_id>>) # {}
            /\ RecordsOf(<<writer[t2].student_name, writer[t2].question_id>>) # {}

\* C30: the question cache is served only while fresh: an endpoint answers
\* from questions_cache without fetching only if the cache was filled less
\* than CACHE_EXPIRE_MINUTES ago, and questions_last_fetch is set whenever
\* questions_cache is not empty.
C30_CacheServedWhileFresh ==
    /\ (answer # None /\ answer[1].from_cache /\ ~answer[1].fetched) =>
            answer[1].age < CACHE_EXPIRE_MINUTES
    /\ questions_cache # <<>> => questions_last_fetch # None

=============================================================================
